---- MODULE Spec2Model ----
(***************************************************************************)
(* Model of the stage-gate CSV -> Turtle tool chain.                       *)
(*                                                                         *)
(* A text is a sequence of tokens.  A token is a one-character string, or  *)
(* a word that the code only ever compares or copies as a whole (a header  *)
(* name such as "Owner", an IRI prefix such as "ex:Spec-").  Word tokens   *)
(* never begin or end with white space and never hold a separator the code *)
(* splits on, so equality of token sequences is equality of the strings.   *)
(*                                                                         *)
(* The scripts are independent programs.  Each has its own specification   *)
(* (SpecCsv, SpecMint, SpecLex, SpecGen); the variables of the scripts a   *)
(* specification does not run stay at their initial values.                *)
(***************************************************************************)
EXTENDS Naturals, Integers, Sequences, FiniteSets, TLC

VARIABLES
    \* tabular extraction and column resolution
    csvFile, pcCsv, readResult, colResult, gvResult,
    \* GUPRI minting (generate_cmc_ttl_gupri.py)
    ID_MAPPINGS, mappingFile, pcMint, run, nCalls, probe, last,
    \* lexicon generator (generate_lexicon_ttl.py)
    LEXICON_ID_MAPPINGS, lexFile, pcLex, lexRun,
    \* the two stage-gate generators
    script, rows, pcGen, stage_info, ttl,
    \* the literal escapers
    escIn, escOut, pcEsc,
    \* combine_ttls.py
    ttlIn, all_prefixes, all_triples, ttlOut, pcCmb,
    \* export_to_graphdb.py upload_file
    max_retries, attempt, backoff, sleeps, status, transient, failures, upResult, pcUp,
    \* export_to_graphdb.py main
    dry_run_flags, dry_run, files, fileIdx, posts, exitCode, pcMain,
    \* entry points and their CSV readers
    entry, inputKind, encoding, combine, csvIn, csvIdx, tried, decoded, raised,
    runExit, pcRun,
    \* StageGateSimulator (examples/stage_gate_0/test_stage_gate_0.py)
    data, deliverable_status, now, simCall, sample, flowIdx, readiness, pcSim

csvVars == <<csvFile, pcCsv, readResult, colResult, gvResult>>
mintVars == <<ID_MAPPINGS, mappingFile, pcMint, run, nCalls, probe, last>>
lexVars == <<LEXICON_ID_MAPPINGS, lexFile, pcLex, lexRun>>
genVars == <<script, rows, pcGen, stage_info, ttl>>
escVars == <<escIn, escOut, pcEsc>>
cmbVars == <<ttlIn, all_prefixes, all_triples, ttlOut, pcCmb>>
upVars == <<max_retries, attempt, backoff, sleeps, status, transient, failures, upResult, pcUp>>
extVars == <<escVars, cmbVars, upVars>>
mainVars == <<dry_run_flags, dry_run, files, fileIdx, posts, exitCode, pcMain>>
runVars == <<entry, inputKind, encoding, combine, csvIn, csvIdx, tried, decoded, raised,
            runExit, pcRun>>
simVars == <<data, deliverable_status, now, simCall, sample, flowIdx, readiness, pcSim>>
appVars == <<mainVars, runVars, simVars>>
vars == <<csvVars, mintVars, lexVars, genVars, extVars, appVars>>

-----------------------------------------------------------------------------
(* Bounds of the model *)

\* physical lines of a CSV file
MaxLines == 3
\* cells of one CSV line
MaxCols == 2
\* create_gupri calls over the life of a mapping file
MaxCalls == 3
\* runs of the GUPRI generator process
MaxRuns == 2
\* runs of the lexicon generator process
MaxLexRuns == 3
\* data rows handed to a generator
MaxRows == 2
\* characters of a text handed to a literal escaper
MaxLen == 3
\* lines read by combine_ttl_files, a missing file counting as one
MaxTtlLines == 3
\* the largest --max-retries handed to upload_file
MaxRetries == 8
\* paths given to the uploader
MaxFiles == 3
\* bytes of a CSV file handed to a decoder
MaxBytes == 2
\* deliverables loaded by the simulator
MaxDeliverables == 3
\* readings of datetime.now() in a sequence of simulator calls
MaxClock == 4

-----------------------------------------------------------------------------
(* Text helpers: Python str methods on token sequences *)

EmptyMap == [k \in {} |-> <<>>]

Put(f, k, v) == [x \in (DOMAIN f) \cup {k} |-> IF x = k THEN v ELSE f[x]]

WhiteSpace == {" ", "\t", "\n", "\r"}

RECURSIVE LStrip(_, _)
LStrip(s, drop) ==
    IF s # <<>> /\ Head(s) \in drop THEN LStrip(Tail(s), drop) ELSE s

RECURSIVE RStrip(_, _)
RStrip(s, drop) ==
    IF s # <<>> /\ s[Len(s)] \in drop
    THEN RStrip(SubSeq(s, 1, Len(s) - 1), drop)
    ELSE s

\* str.strip(): white space off both ends
Strip(s) == RStrip(LStrip(s, WhiteSpace), WhiteSpace)

\* str.strip(chars)
StripChars(s, drop) == RStrip(LStrip(s, drop), drop)

\* s[:n]
Take(s, n) == SubSeq(s, 1, IF Len(s) < n THEN Len(s) ELSE n)

\* sep.join(parts)
RECURSIVE Join(_, _)
Join(parts, sep) ==
    IF parts = <<>> THEN <<>>
    ELSE IF Len(parts) = 1 THEN parts[1]
    ELSE parts[1] \o sep \o Join(Tail(parts), sep)

\* s.split(sep) for a one-token separator
RECURSIVE SplitAcc(_, _, _)
SplitAcc(s, sep, cur) ==
    IF s = <<>> THEN <<cur>>
    ELSE IF Head(s) = sep THEN <<cur>> \o SplitAcc(Tail(s), sep, <<>>)
    ELSE SplitAcc(Tail(s), sep, Append(cur, Head(s)))

Split(s, sep) == SplitAcc(s, sep, <<>>)

\* s.replace(pat, rep): leftmost non-overlapping occurrences, pat non-empty
RECURSIVE Replace(_, _, _)
Replace(s, pat, rep) ==
    IF Len(s) < Len(pat) THEN s
    ELSE IF SubSeq(s, 1, Len(pat)) = pat
    THEN rep \o Replace(SubSeq(s, Len(pat) + 1, Len(s)), pat, rep)
    ELSE <<Head(s)>> \o Replace(Tail(s), pat, rep)

LowerCase == {"a", "b", "c", "d", "e", "f", "g", "h", "i", "j", "k", "l", "m",
              "n", "o", "p", "q", "r", "s", "t", "u", "v", "w", "x", "y", "z"}
UpperCase == {"A", "B", "C", "D", "E", "F", "G", "H", "I", "J", "K", "L", "M",
              "N", "O", "P", "Q", "R", "S", "T", "U", "V", "W", "X", "Y", "Z"}
Digits == {"0", "1", "2", "3", "4", "5", "6", "7", "8", "9"}

LowerOf ==
    [c \in UpperCase |->
        CASE c = "A" -> "a" [] c = "B" -> "b" [] c = "C" -> "c" [] c = "D" -> "d"
          [] c = "E" -> "e" [] c = "F" -> "f" [] c = "G" -> "g" [] c = "H" -> "h"
          [] c = "I" -> "i" [] c = "J" -> "j" [] c = "K" -> "k" [] c = "L" -> "l"
          [] c = "M" -> "m" [] c = "N" -> "n" [] c = "O" -> "o" [] c = "P" -> "p"
          [] c = "Q" -> "q" [] c = "R" -> "r" [] c = "S" -> "s" [] c = "T" -> "t"
          [] c = "U" -> "u" [] c = "V" -> "v" [] c = "W" -> "w" [] c = "X" -> "x"
          [] c = "Y" -> "y" [] c = "Z" -> "z"]

\* str.lower()
Lower(s) == [i \in 1..Len(s) |-> IF s[i] \in UpperCase THEN LowerOf[s[i]] ELSE s[i]]

\* re.sub(r"[^keep]+", rep, s): every maximal run of tokens outside keep -> rep
RECURSIVE SubRuns(_, _, _, _)
SubRuns(s, keep, rep, inRun) ==
    IF s = <<>> THEN <<>>
    ELSE IF Head(s) \in keep
    THEN <<Head(s)>> \o SubRuns(Tail(s), keep, rep, FALSE)
    ELSE (IF inRun THEN <<>> ELSE <<rep>>) \o SubRuns(Tail(s), keep, rep, TRUE)

-----------------------------------------------------------------------------
(* 4.1 Tabular extraction *)

\* csv.reader output: one list of cells per physical line
TitleLine == <<<<"t">>>>

\* cells of the header line: empty, a registered name with trailing white
\* space, and an alias of it
HeaderCells == {<<>>, <<"Owner", " ">>, <<"Unnamed: 7">>}

\* cells of a data line: empty, and a value with leading white space
DataCells == {<<>>, <<" ", "v">>}

HeaderLines == UNION {[1..n -> HeaderCells] : n \in 0..MaxCols}

DataLines == UNION {[1..n -> DataCells] : n \in 0..MaxCols}

\* Line index 0 is never read by either reader; only its presence matters.
CsvFiles ==
    {<<>>, <<TitleLine>>} \cup
    {<<TitleLine, h>> \o body :
        h \in HeaderLines,
        body \in UNION {[1..n -> DataLines] : n \in 0..(MaxLines - 2)}}

\* r + [""] * len(headers)
PadCells(r, n) == r \o [i \in 1..n |-> <<>>]

\* {h: (v or "").strip() for h, v in zip(headers, row_vals)}: a later duplicate
\* header overwrites an earlier one
ZipDict(headers, vals) ==
    LET n == IF Len(headers) < Len(vals) THEN Len(headers) ELSE Len(vals)
        lastIdx(h) == CHOOSE i \in 1..n :
                        /\ headers[i] = h
                        /\ \A j \in 1..n : headers[j] = h => j <= i
    IN [h \in {headers[i] : i \in 1..n} |-> Strip(vals[lastIdx(h)])]

row_vals_short(r, headers) == r

\* generate_cmc_ttl.py line 95: (r + [""] * len(headers))[: len(headers)]
row_vals(r, headers) == Take(PadCells(r, Len(headers)), Len(headers))

\* analyze_columns.py line 74: the same expression
column_row_vals(r, headers) == Take(PadCells(r, Len(headers)), Len(headers))

read_csv_second_row_headers(lines) ==
    IF Len(lines) < 2
    THEN [raised |-> FALSE, headers |-> <<>>, rows |-> <<>>]
    ELSE LET headers == [i \in 1..Len(lines[2]) |-> Strip(lines[2][i])]
         IN [raised |-> FALSE,
             headers |-> headers,
             rows |-> [k \in 1..(Len(lines) - 2) |->
                          ZipDict(headers, row_vals(lines[k + 2], headers))]]

\* data[h].append(...) for each (h, v) of each data row, in order
RECURSIVE ColumnData(_, _, _)
ColumnData(h, headers, dataLines) ==
    IF dataLines = <<>> THEN <<>>
    ELSE LET vals == column_row_vals(Head(dataLines), headers)
             hits == SelectSeq([i \in 1..Len(headers) |-> <<headers[i], Strip(vals[i])>>],
                               LAMBDA p : p[1] = h)
         IN [i \in 1..Len(hits) |-> hits[i][2]]
            \o ColumnData(h, headers, Tail(dataLines))

\* rows[1] on a one-line file is an IndexError
load_csv_columns_second_row_headers(lines) ==
    IF lines = <<>>
    THEN [raised |-> FALSE, headers |-> <<>>, data |-> EmptyMap]
    ELSE IF Len(lines) < 2
    THEN [raised |-> TRUE, headers |-> <<>>, data |-> EmptyMap]
    ELSE LET headers == [i \in 1..Len(lines[2]) |-> Strip(lines[2][i])]
             dataLines == SubSeq(lines, 3, Len(lines))
         IN [raised |-> FALSE,
             headers |-> headers,
             data |-> [h \in {headers[i] : i \in 1..Len(headers)} |->
                          ColumnData(h, headers, dataLines)]]

-----------------------------------------------------------------------------
(* 4.2 Canonical column resolution *)

OFFICIAL_COLS ==
    [f \in {"Value Stream", "Stage Gate", "Stage Gate Description",
            "Functional Area/Subteam", "Category", "Deliverable",
            "Explanation/Translation", "Owner", "Status", "To be presented at",
            "Plan date", "Actual date", "Comments/Document reference"} |->
        CASE f = "Value Stream" -> <<"Value Stream", "Drop Down">>
          [] f = "Stage Gate" -> <<"Stage Gate", "Drop Down.1">>
          [] f = "Stage Gate Description" -> <<"Stage Gate Description", "Drop Down.2">>
          [] f = "Functional Area/Subteam" -> <<"Functional Area/Subteam", "Drop Down.3">>
          [] f = "Category" -> <<"Category", "Unnamed: 4">>
          [] f = "Deliverable" -> <<"Deliverable", "Unnamed: 5">>
          [] f = "Explanation/Translation" ->
                <<"Explanation/Translation", "Explanation/\nTranslation", "Unnamed: 6">>
          [] f = "Owner" -> <<"Owner", "Unnamed: 7">>
          [] f = "Status" -> <<"Status", "Drop Down.4">>
          [] f = "To be presented at" -> <<"To be presented at", "Drop Down.5">>
          [] f = "Plan date" ->
                <<"Plan date", "Plan \ndate", "251031 - added column from Synthetics">>
          [] f = "Actual date" ->
                <<"Actual date", "Actual\ndate", "251031 - added column from Synthetics .1">>
          [] f = "Comments/Document reference" ->
                <<"Comments/Document reference", "Comments/\nDocument reference",
                  "251031 - added column from Synthetics .2">>]

\* OFFICIAL_COLS.get(logical_name, [])
Aliases(logical_name) ==
    IF logical_name \in DOMAIN OFFICIAL_COLS THEN OFFICIAL_COLS[logical_name] ELSE <<>>

\* the aliases that are keys of the row, in table order
PresentAliases(row, logical_name) ==
    SelectSeq(Aliases(logical_name), LAMBDA a : <<a>> \in DOMAIN row)

\* generate_cmc_ttl.py: the value under the first alias that is a key of the row
get_value(row, logical_name) ==
    LET present == PresentAliases(row, logical_name)
    IN IF present = <<>> THEN <<>> ELSE row[<<present[1]>>]

\* generate_cmc_ttl_gupri.py: the stripped value under the first alias whose
\* value is truthy
get_value_gupri(row, col_name) ==
    LET filled == SelectSeq(PresentAliases(row, col_name),
                            LAMBDA a : row[<<a>>] # <<>>)
    IN IF filled = <<>> THEN <<>> ELSE Strip(row[<<filled[1]>>])

-----------------------------------------------------------------------------
(* Values of the variables of a script that is not running *)

NoRead == [raised |-> FALSE, headers |-> <<>>, rows |-> <<>>]
NoColumns == [raised |-> FALSE, headers |-> <<>>, data |-> EmptyMap]
NoLookup == [variant |-> "none", row |-> EmptyMap, field |-> "", value |-> <<>>]

IdleCsv ==
    /\ csvFile = <<>>
    /\ pcCsv = "off"
    /\ readResult = NoRead
    /\ colResult = NoColumns
    /\ gvResult = NoLookup

-----------------------------------------------------------------------------
(* SpecCsv: the two second-row-header readers and the two get_value variants,
   applied to every small CSV file *)

LookupFields == {"Owner", "Nope"}

\* generate_cmc_ttl.py main(): headers, rows = read_csv_second_row_headers(SGD_FILE)
ReadCsv ==
    /\ pcCsv = "start"
    /\ readResult' = read_csv_second_row_headers(csvFile)
    /\ pcCsv' = "read"
    /\ UNCHANGED <<csvFile, colResult, gvResult>>
    /\ UNCHANGED <<mintVars, lexVars, genVars>>
    /\ UNCHANGED <<extVars, appVars>>

\* analyze_columns.py main(): headers, data = load_csv_columns_second_row_headers(SGD_PATH)
LoadCsvColumns ==
    /\ pcCsv = "start"
    /\ colResult' = load_csv_columns_second_row_headers(csvFile)
    /\ pcCsv' = "loaded"
    /\ UNCHANGED <<csvFile, readResult, gvResult>>
    /\ UNCHANGED <<mintVars, lexVars, genVars>>
    /\ UNCHANGED <<extVars, appVars>>

\* get_value(row, field) of the slug generator on one extracted row
GetValueSlug ==
    /\ pcCsv = "read"
    /\ \E k \in 1..Len(readResult.rows), f \in LookupFields :
         gvResult' = [variant |-> "slug", row |-> readResult.rows[k], field |-> f,
                      value |-> get_value(readResult.rows[k], f)]
    /\ pcCsv' = "resolved"
    /\ UNCHANGED <<csvFile, readResult, colResult>>
    /\ UNCHANGED <<mintVars, lexVars, genVars>>
    /\ UNCHANGED <<extVars, appVars>>

\* get_value(row, field) of the GUPRI generator on one extracted row
GetValueGupri ==
    /\ pcCsv = "read"
    /\ \E k \in 1..Len(readResult.rows), f \in LookupFields :
         gvResult' = [variant |-> "gupri", row |-> readResult.rows[k], field |-> f,
                      value |-> get_value_gupri(readResult.rows[k], f)]
    /\ pcCsv' = "resolved"
    /\ UNCHANGED <<csvFile, readResult, colResult>>
    /\ UNCHANGED <<mintVars, lexVars, genVars>>
    /\ UNCHANGED <<extVars, appVars>>

-----------------------------------------------------------------------------
(* 4.3 Identifier minting (GUPRI), generate_cmc_ttl_gupri.py *)

\* A resource name or literal of the output: the text is pre, then body, then
\* the first eight hex digits of uuid when uuid is not empty.
Node(pre, body, uuid) == [pre |-> pre, body |-> body, uuid |-> uuid]
NoNode == Node("", <<>>, <<>>)

CMC_NAMESPACE_UUID == "a7c6f3e0-8b5d-4e2a-9f1c-3d7e5a9b2c4e"

\* uuid.uuid5(namespace, name): SHA-1 of namespace and name, taken to be
\* injective on the names hashed (also in its first eight hex digits)
uuid5(namespace, name) == <<namespace>> \o name

\* readable_hint: None, or a text
NoHint == [given |-> FALSE, text |-> <<>>]
Hint(text) == [given |-> TRUE, text |-> text]

\* f"{entity_type}:{':'.join(str(k) for k in key_components if k)}"
CacheKey(entity_type, key_components) ==
    <<entity_type, ":">>
        \o Join(SelectSeq(key_components, LAMBDA k : k # <<>>), <<":">>)

\* re.sub(r'[^a-zA-Z0-9]+', '_', readable_hint)[:20].strip('_')
CleanHint(text) ==
    StripChars(Take(SubRuns(text, LowerCase \cup UpperCase \cup Digits, "_", FALSE), 20),
               {"_"})

\* lines 102-111: the identifier minted for a key that has none yet
MintGupri(entity_type, cache_key, readable_hint) ==
    LET entity_uuid == uuid5(CMC_NAMESPACE_UUID, cache_key)
    IN IF readable_hint.given /\ readable_hint.text # <<>>
       THEN Node("ex:", <<entity_type, "_">> \o CleanHint(readable_hint.text) \o <<"_">>,
                 entity_uuid)
       ELSE Node("ex:", <<entity_type, "_">>, entity_uuid)

create_gupri_nocache(mappings, entity_type, key_components, readable_hint) ==
    LET cache_key == CacheKey(entity_type, key_components)
        gupri == MintGupri(entity_type, cache_key, readable_hint)
    IN [id |-> gupri, mappings |-> Put(mappings, cache_key, gupri)]

\* create_gupri: the identifier returned and ID_MAPPINGS after the call
create_gupri(mappings, entity_type, key_components, readable_hint) ==
    LET cache_key == CacheKey(entity_type, key_components)
    IN IF cache_key \in DOMAIN mappings
       THEN [id |-> mappings[cache_key], mappings |-> mappings]
       ELSE LET gupri == MintGupri(entity_type, cache_key, readable_hint)
            IN [id |-> gupri, mappings |-> Put(mappings, cache_key, gupri)]

\* The mapping side-file: a JSON object, held as its set of members
NoFile == [exists |-> FALSE, members |-> {}]

\* json.dump(mapping, f, indent=2, sort_keys=True)
JsonDump(mapping) ==
    [exists |-> TRUE, members |-> {<<k, mapping[k]>> : k \in DOMAIN mapping}]

\* json.load(f)
JsonLoad(file) ==
    [k \in {m[1] : m \in file.members} |-> (CHOOSE m \in file.members : m[1] = k)[2]]

\* load_id_mappings: the file is only ever written by save_id_mappings, so it
\* decodes; a missing file leaves the module's empty dictionary in place
load_id_mappings(current, file) ==
    IF file.exists THEN JsonLoad(file) ELSE current

save_id_mappings(mapping) == JsonDump(mapping)

NoCall == [n |-> 0, run |-> 0, entity_type |-> "", key_components |-> <<>>,
           readable_hint |-> NoHint, id |-> NoNode]

IdleMint ==
    /\ ID_MAPPINGS = EmptyMap
    /\ mappingFile = NoFile
    /\ pcMint = "off"
    /\ run = 0
    /\ nCalls = 0
    /\ probe = NoCall
    /\ last = NoCall

-----------------------------------------------------------------------------
(* SpecMint: runs of a process that loads the mapping file, calls create_gupri
   with any arguments, and saves the mapping file *)

EntityTypes == {"Stage", "StagePlan"}

\* (value_stream, stage_num) pairs as emit_stage_blocks_gupri passes them: the
\* stage number is never empty, the value stream may be, either may hold ':'
KeyTuples == {<<<<>>, <<"a">>>>, <<<<"a">>, <<"a">>>>, <<<<>>, <<"a", ":", "a">>>>,
              <<<<"a", ":", "a">>, <<"a">>>>}

Hints == {NoHint, Hint(<<" ", "y">>)}

\* main(), lines 308-310: a new process loads the mapping file
MintLoad ==
    /\ pcMint = "idle"
    /\ run < MaxRuns
    /\ run' = run + 1
    /\ ID_MAPPINGS' = load_id_mappings(EmptyMap, mappingFile)
    /\ pcMint' = "loaded"
    /\ UNCHANGED <<mappingFile, nCalls, probe, last>>
    /\ UNCHANGED <<csvVars, lexVars, genVars>>
    /\ UNCHANGED <<extVars, appVars>>

\* main(), lines 317-319: no source CSV, the process ends without saving
MintMissingCsv ==
    /\ pcMint = "loaded"
    /\ pcMint' = "idle"
    /\ ID_MAPPINGS' = EmptyMap
    /\ UNCHANGED <<mappingFile, run, nCalls, probe, last>>
    /\ UNCHANGED <<csvVars, lexVars, genVars>>
    /\ UNCHANGED <<extVars, appVars>>

\* one create_gupri call; probe remembers one earlier call of the history
MintCall ==
    /\ pcMint \in {"loaded", "minting"}
    /\ nCalls < MaxCalls
    /\ \E t \in EntityTypes, kc \in KeyTuples, h \in Hints :
         LET r == create_gupri(ID_MAPPINGS, t, kc, h)
             call == [n |-> nCalls + 1, run |-> run, entity_type |-> t,
                      key_components |-> kc, readable_hint |-> h, id |-> r.id]
         IN /\ ID_MAPPINGS' = r.mappings
            /\ last' = call
            /\ probe' \in (IF probe.n = 0 THEN {probe, call} ELSE {probe})
    /\ nCalls' = nCalls + 1
    /\ pcMint' = "minting"
    /\ UNCHANGED <<mappingFile, run>>
    /\ UNCHANGED <<csvVars, lexVars, genVars>>
    /\ UNCHANGED <<extVars, appVars>>

\* main(), lines 339-346: save_id_mappings(), then the process ends
MintSave ==
    /\ pcMint = "minting"
    /\ mappingFile' = save_id_mappings(ID_MAPPINGS)
    /\ ID_MAPPINGS' = EmptyMap
    /\ pcMint' = "idle"
    /\ UNCHANGED <<run, nCalls, probe, last>>
    /\ UNCHANGED <<csvVars, lexVars, genVars>>
    /\ UNCHANGED <<extVars, appVars>>

-----------------------------------------------------------------------------
(* generate_lexicon_ttl.py: term identifiers and their mapping file *)

LEXICON_NAMESPACE_UUID == "b8d7e4a1-9c3f-4e2b-8a1d-6f5c3b9e7d2a"

\* re.sub(r'[^a-zA-Z0-9_]', '_', text): token by token
SubEach(text, keep, rep) ==
    [i \in 1..Len(text) |-> IF text[i] \in keep THEN text[i] ELSE rep]

\* safe_id of generate_lexicon_ttl.py
safe_id_lexicon(text) ==
    LET keep == LowerCase \cup UpperCase \cup Digits \cup {"_"}
        t1 == SubEach(text, keep, "_")
        t2 == SubRuns(t1, keep \ {"_"}, "_", FALSE)
    IN StripChars(t2, {"_"})

generate_lexicon_gupri(mappings, abbr) ==
    LET unique_key == <<"Term", ":">> \o abbr
    IN IF unique_key \in DOMAIN mappings
       THEN [id |-> mappings[unique_key], mappings |-> mappings]
       ELSE LET term_uuid == uuid5(LEXICON_NAMESPACE_UUID, unique_key)
                gupri == Node("ex:", <<"Term_">> \o safe_id_lexicon(abbr) \o <<"_">>,
                              term_uuid)
            IN [id |-> gupri, mappings |-> Put(mappings, unique_key, gupri)]

IdleLex ==
    /\ LEXICON_ID_MAPPINGS = EmptyMap
    /\ lexFile = NoFile
    /\ pcLex = "off"
    /\ lexRun = 0

\* cells of the 'Abbreviation & Nomenclature' and 'Definition' columns
AbbrCells == {<<>>, <<"G">>, <<"C">>, <<" ", "Q", ".">>}
DefinitionCells == {<<>>, <<"d">>}

\* a new process: LEXICON_ID_MAPPINGS is the module's empty dictionary and
\* nothing reads MAPPINGS_FILE (lines 23-24, 156-162)
LexStart ==
    /\ pcLex = "idle"
    /\ lexRun < MaxLexRuns
    /\ lexRun' = lexRun + 1
    /\ LEXICON_ID_MAPPINGS' = EmptyMap
    /\ pcLex' = "rows"
    /\ UNCHANGED lexFile
    /\ UNCHANGED <<csvVars, mintVars, genVars>>
    /\ UNCHANGED <<extVars, appVars>>

\* lines 192-202: one CSV row
LexRow ==
    /\ pcLex = "rows"
    /\ \E a \in AbbrCells, d \in DefinitionCells :
         LET abbr == Strip(a)
             definition == Strip(d)
         IN IF abbr = <<>> \/ definition = <<>>
            THEN UNCHANGED LEXICON_ID_MAPPINGS
            ELSE LEXICON_ID_MAPPINGS' =
                    generate_lexicon_gupri(LEXICON_ID_MAPPINGS, abbr).mappings
    /\ UNCHANGED <<lexFile, pcLex, lexRun>>
    /\ UNCHANGED <<csvVars, mintVars, genVars>>
    /\ UNCHANGED <<extVars, appVars>>

\* lines 260-265: the mappings of this run replace the file, unless there are none
LexSave ==
    /\ pcLex = "rows"
    /\ lexFile' = IF LEXICON_ID_MAPPINGS # EmptyMap
                  THEN JsonDump(LEXICON_ID_MAPPINGS)
                  ELSE lexFile
    /\ pcLex' = "idle"
    /\ UNCHANGED <<LEXICON_ID_MAPPINGS, lexRun>>
    /\ UNCHANGED <<csvVars, mintVars, genVars>>
    /\ UNCHANGED <<extVars, appVars>>

-----------------------------------------------------------------------------
(* 4.4 TTL emission: texts, names and statements shared by the generators *)

TxtStage == <<"S", "t", "a", "g", "e", " ">>
TxtPlanFor == <<"P", "l", "a", "n", " ", "f", "o", "r", " ">>
TxtGateFor == <<"G", "a", "t", "e", " ", "f", "o", "r", " ">>
TxtSpecificationFor == <<"S", "p", "e", "c", "i", "f", "i", "c", "a", "t", "i", "o", "n",
                         " ", "f", "o", "r", " ">>
TxtGeneric == <<"g", "e", "n", "e", "r", "i", "c">>
TxtUnnamed == <<"u", "n", "n", "a", "m", "e", "d">>
TxtValueStream == <<"V", "a", "l", "u", "e", " ", "S", "t", "r", "e", "a", "m">>
TxtStageGate == <<"S", "t", "a", "g", "e", " ", "G", "a", "t", "e">>

\* x or y
OrElse(x, y) == IF x # <<>> THEN x ELSE y

\* safe_id of generate_cmc_ttl.py and generate_cmc_ttl_gupri.py
safe_id(text) ==
    LET t1 == Lower(Strip(text))
        t2 == SubRuns(t1, LowerCase \cup Digits, "-", FALSE)
        t3 == StripChars(t2, {"-"})
    IN OrElse(t3, TxtUnnamed)

\* escape_turtle_literal of generate_cmc_ttl.py: the replacements in code order
escape_turtle_literal(value) ==
    LET v1 == Replace(value, <<"\\">>, <<"\\", "\\">>)
        v2 == Replace(v1, <<"\"">>, <<"\\", "\"">>)
        v3 == Replace(v2, <<"\r">>, <<"\\", "n">>)
        v4 == Replace(v3, <<"\n">>, <<"\\", "n">>)
    IN Replace(v4, <<"\t">>, <<"\\", "t">>)

\* a name of a class or an instance without a key
Name(word) == Node(word, <<>>, <<>>)

\* "\"{escape_turtle_literal(text)}\"" as the format strings of the slug generator write it
Quoted(text) == Node("", <<"\"">> \o escape_turtle_literal(text) \o <<"\"">>, <<>>)

\* One statement of the output; row is the index of the input row whose loop
\* iteration wrote it.
Stmt(s, p, o, row) == [s |-> s, p |-> p, o |-> o, row |-> row]

\* the optional literal properties of a QualityAttribute, in emission order
OptionalFields ==
    << <<"Explanation/Translation", "rdfs:comment">>,
       <<"Category", "ex:hasCategory">>,
       <<"Plan date", "ex:plannedDate">>,
       <<"Actual date", "ex:actualDate">>,
       <<"Comments/Document reference", "ex:reference">> >>

-----------------------------------------------------------------------------
(* generate_cmc_ttl.py (scripts/etl and the copy at the top level) *)

stage_iri(stream_id, stage_id) == Node("ex:Stage-", stream_id \o <<"-">> \o stage_id, <<>>)
plan_iri(stream_id, stage_id) == Node("ex:Plan-", stream_id \o <<"-">> \o stage_id, <<>>)
gate_iri(stream_id, stage_id) == Node("ex:Gate-", stream_id \o <<"-">> \o stage_id, <<>>)
spec_iri(stream_id, stage_id) == Node("ex:Spec-", stream_id \o <<"-">> \o stage_id, <<>>)
qa_iri(stream_id, stage_id, deliv_id) ==
    Node("ex:CQA-", stream_id \o <<"-">> \o stage_id \o <<"-">> \o deliv_id, <<>>)
agent_iri(agent_id) == Node("ex:Agent-", agent_id, <<>>)

RECURSIVE build_stage_info(_, _, _)
build_stage_info(rs, i, info) ==
    IF i > Len(rs) THEN info
    ELSE LET stream == get_value(rs[i], "Value Stream")
             stage == get_value(rs[i], "Stage Gate")
             desc == get_value(rs[i], "Stage Gate Description")
             key == <<safe_id(stream), safe_id(stage)>>
         IN IF stream = <<>> \/ stage = <<>> THEN build_stage_info(rs, i + 1, info)
            ELSE IF key \notin DOMAIN info /\ desc # <<>>
            THEN build_stage_info(rs, i + 1, Put(info, key, desc))
            ELSE build_stage_info(rs, i + 1, info)

RECURSIVE emit_stage_blocks(_, _, _)
emit_stage_blocks(rs, i, seen_stages) ==
    IF i > Len(rs) THEN <<>>
    ELSE LET value_stream == get_value(rs[i], "Value Stream")
             stage_num == get_value(rs[i], "Stage Gate")
             stage_desc == get_value(rs[i], "Stage Gate Description")
             key == <<value_stream, stage_num>>
             stream_id == safe_id(OrElse(value_stream, TxtGeneric))
             stage_id == safe_id(stage_num)
             stage == stage_iri(stream_id, stage_id)
             plan == plan_iri(stream_id, stage_id)
             gate == gate_iri(stream_id, stage_id)
             label == OrElse(stage_desc, TxtStage \o stage_num)
         IN IF value_stream = TxtValueStream /\ stage_num = TxtStageGate
            THEN emit_stage_blocks(rs, i + 1, seen_stages)
            ELSE IF stage_num = <<>> THEN emit_stage_blocks(rs, i + 1, seen_stages)
            ELSE IF key \in seen_stages THEN emit_stage_blocks(rs, i + 1, seen_stages)
            ELSE << Stmt(stage, "a", Name("ex:Stage"), i),
                    Stmt(stage, "rdfs:label", Quoted(label), i),
                    Stmt(stage, "ex:hasPlan", plan, i),
                    Stmt(stage, "ex:hasGate", gate, i),
                    Stmt(stage, "ex:hasSpecification", spec_iri(stream_id, stage_id), i),
                    Stmt(plan, "a", Name("ex:StagePlan"), i),
                    Stmt(plan, "rdfs:label", Quoted(TxtPlanFor \o label), i),
                    Stmt(gate, "a", Name("ex:StageGate"), i),
                    Stmt(gate, "rdfs:label", Quoted(TxtGateFor \o label), i) >>
                 \o emit_stage_blocks(rs, i + 1, seen_stages \cup {key})

\* [p.strip() for p in owner_raw.split(",") if p.strip()]
owner_parts(owner_raw) ==
    IF owner_raw = <<>> THEN <<>>
    ELSE LET parts == Split(owner_raw, ",")
         IN SelectSeq([k \in 1..Len(parts) |-> Strip(parts[k])], LAMBDA q : q # <<>>)

agent_is_new_always(iri, declared_agents) == TRUE

\* line 229: if agent_iri not in declared_agents
agent_is_new(iri, declared_agents) == iri \notin declared_agents

\* lines 226-232: declare the agents of one row that are not declared yet
RECURSIVE declare_agents(_, _, _)
declare_agents(parts, declared_agents, i) ==
    IF parts = <<>> THEN <<>>
    ELSE LET iri == agent_iri(safe_id(Head(parts)))
         IN IF agent_is_new(iri, declared_agents)
            THEN << Stmt(iri, "a", Name("prov:Agent"), i),
                    Stmt(iri, "rdfs:label", Quoted(Head(parts)), i) >>
                 \o declare_agents(Tail(parts), declared_agents \cup {iri}, i)
            ELSE declare_agents(Tail(parts), declared_agents, i)

\* lines 194-222: the QualityAttribute stanza of one row
qa_stanza(row, qa, deliverable, parts, i) ==
    LET filled == SelectSeq(OptionalFields, LAMBDA f : get_value(row, f[1]) # <<>>)
    IN << Stmt(qa, "a", Name("ex:QualityAttribute"), i),
          Stmt(qa, "rdfs:label", Quoted(deliverable), i) >>
       \o [k \in 1..Len(filled) |->
              Stmt(qa, filled[k][2], Quoted(get_value(row, filled[k][1])), i)]
       \o [k \in 1..Len(parts) |->
              Stmt(qa, "prov:wasAttributedTo", agent_iri(safe_id(parts[k])), i)]

RECURSIVE emit_specs_and_deliverables(_, _, _, _, _)
emit_specs_and_deliverables(rs, i, info, declared_agents, declared_specs) ==
    IF i > Len(rs) THEN <<>>
    ELSE LET value_stream == get_value(rs[i], "Value Stream")
             stage_num == get_value(rs[i], "Stage Gate")
             deliverable == get_value(rs[i], "Deliverable")
             stream_id == safe_id(OrElse(value_stream, TxtGeneric))
             stage_id == safe_id(stage_num)
             spec == spec_iri(stream_id, stage_id)
             spec_key == <<stream_id, stage_id>>
             stage_label == IF spec_key \in DOMAIN info THEN info[spec_key]
                            ELSE TxtStage \o stage_num
             specStanza ==
                 IF spec \notin declared_specs
                 THEN << Stmt(spec, "a", Name("ex:Specification"), i),
                         Stmt(spec, "rdfs:label",
                              Quoted(TxtSpecificationFor \o stage_label), i) >>
                 ELSE <<>>
             parts == owner_parts(get_value(rs[i], "Owner"))
             qa == qa_iri(stream_id, stage_id, Take(safe_id(deliverable), 64))
             agents == {agent_iri(safe_id(parts[k])) : k \in 1..Len(parts)}
         IN IF stage_num = <<>> \/ value_stream = <<>>
            THEN emit_specs_and_deliverables(rs, i + 1, info, declared_agents,
                                             declared_specs)
            ELSE IF deliverable = <<>>
            THEN specStanza
                 \o emit_specs_and_deliverables(rs, i + 1, info, declared_agents,
                                                declared_specs \cup {spec})
            ELSE specStanza
                 \o qa_stanza(rs[i], qa, deliverable, parts, i)
                 \o declare_agents(parts, declared_agents, i)
                 \o << Stmt(spec, "ex:hasCQA", qa, i) >>
                 \o emit_specs_and_deliverables(rs, i + 1, info,
                                                declared_agents \cup agents,
                                                declared_specs \cup {spec})

-----------------------------------------------------------------------------
(* generate_cmc_ttl_gupri.py: emission *)

Contains(s, c) == \E k \in 1..Len(s) : s[k] = c

\* escape_turtle_literal of generate_cmc_ttl_gupri.py: the literal with its quotes
escape_turtle_literal_gupri(value) ==
    IF Contains(value, "\n") \/ Contains(value, "\r")
    THEN LET v1 == Replace(value, <<"\\">>, <<"\\", "\\">>)
             v2 == Replace(v1, <<"\"", "\"", "\"">>,
                           <<"\\", "\"", "\\", "\"", "\\", "\"">>)
         IN <<"\"", "\"", "\"">> \o v2 \o <<"\"", "\"", "\"">>
    ELSE LET v1 == Replace(value, <<"\\">>, <<"\\", "\\">>)
             v2 == Replace(v1, <<"\"">>, <<"\\", "\"">>)
             v3 == Replace(v2, <<"\t">>, <<"\\", "t">>)
             v4 == Replace(v3, <<"\r">>, <<"\\", "r">>)
         IN <<"\"">> \o v4 \o <<"\"">>

Literal(value) == Node("", escape_turtle_literal_gupri(value), <<>>)

\* create_legacy_alias(entity_type, legacy_id), by entity type
legacy_stage_alias(legacy_id) == Node("ex:Stage-", legacy_id, <<>>)
legacy_cqa_alias(legacy_id) == Node("ex:CQA-", legacy_id, <<>>)

RECURSIVE emit_stage_blocks_gupri(_, _, _, _, _)
emit_stage_blocks_gupri(rs, i, seen_stages, mappings, out) ==
    IF i > Len(rs) THEN [ttl |-> out, mappings |-> mappings]
    ELSE LET value_stream == get_value_gupri(rs[i], "Value Stream")
             stage_num == get_value_gupri(rs[i], "Stage Gate")
             stage_desc == get_value_gupri(rs[i], "Stage Gate Description")
             stage_key == value_stream \o <<":">> \o stage_num
             readable_hint == Hint(safe_id(value_stream) \o <<"_">> \o safe_id(stage_num))
             c1 == create_gupri(mappings, "Stage", <<value_stream, stage_num>>,
                                readable_hint)
             c2 == create_gupri(c1.mappings, "StagePlan", <<value_stream, stage_num>>, NoHint)
             c3 == create_gupri(c2.mappings, "StageGate", <<value_stream, stage_num>>, NoHint)
             c4 == create_gupri(c3.mappings, "Specification", <<value_stream, stage_num>>,
                                NoHint)
             stream_id == safe_id(OrElse(value_stream, TxtGeneric))
             stage_id == safe_id(stage_num)
             legacy_stage == legacy_stage_alias(stream_id \o <<"-">> \o stage_id)
             label == OrElse(stage_desc, TxtStage \o stage_num)
         IN IF value_stream = TxtValueStream /\ stage_num = TxtStageGate
            THEN emit_stage_blocks_gupri(rs, i + 1, seen_stages, mappings, out)
            ELSE IF stage_num = <<>>
            THEN emit_stage_blocks_gupri(rs, i + 1, seen_stages, mappings, out)
            ELSE IF stage_key \in seen_stages
            THEN emit_stage_blocks_gupri(rs, i + 1, seen_stages, mappings, out)
            ELSE emit_stage_blocks_gupri(rs, i + 1, seen_stages \cup {stage_key},
                    c4.mappings,
                    out \o << Stmt(c1.id, "a", Name("ex:Stage"), i),
                              Stmt(c1.id, "rdfs:label", Literal(label), i),
                              Stmt(c1.id, "ex:hasPlan", c2.id, i),
                              Stmt(c1.id, "ex:hasGate", c3.id, i),
                              Stmt(c1.id, "ex:hasSpecification", c4.id, i),
                              Stmt(c1.id, "owl:sameAs", legacy_stage, i),
                              Stmt(legacy_stage, "owl:sameAs", c1.id, i),
                              Stmt(c2.id, "a", Name("ex:StagePlan"), i),
                              Stmt(c2.id, "rdfs:label", Literal(TxtPlanFor \o label), i),
                              Stmt(c3.id, "a", Name("ex:StageGate"), i),
                              Stmt(c3.id, "rdfs:label", Literal(TxtGateFor \o label), i) >>)

\* lines 257-298: the QualityAttribute stanza of one row (owner_raw is read at
\* line 259 and not used)
qa_stanza_gupri(row, qa, legacy_qa, deliverable, i) ==
    LET filled == SelectSeq(OptionalFields, LAMBDA f : get_value_gupri(row, f[1]) # <<>>)
    IN << Stmt(qa, "a", Name("ex:QualityAttribute"), i),
          Stmt(qa, "rdfs:label", Literal(deliverable), i) >>
       \o [k \in 1..Len(filled) |->
              Stmt(qa, filled[k][2], Literal(get_value_gupri(row, filled[k][1])), i)]
       \o << Stmt(qa, "owl:sameAs", legacy_qa, i),
             Stmt(legacy_qa, "owl:sameAs", qa, i) >>

RECURSIVE emit_deliverable_blocks_gupri(_, _, _, _, _)
emit_deliverable_blocks_gupri(rs, i, declared_specs, mappings, out) ==
    IF i > Len(rs) THEN [ttl |-> out, mappings |-> mappings]
    ELSE LET value_stream == get_value_gupri(rs[i], "Value Stream")
             stage_num == get_value_gupri(rs[i], "Stage Gate")
             deliverable == get_value_gupri(rs[i], "Deliverable")
             c1 == create_gupri(mappings, "Specification", <<value_stream, stage_num>>,
                                NoHint)
             spec_key == value_stream \o <<":">> \o stage_num
             stage_desc == OrElse(get_value_gupri(rs[i], "Stage Gate Description"),
                                  TxtStage \o stage_num)
             specStanza ==
                 IF spec_key \notin declared_specs
                 THEN << Stmt(c1.id, "a", Name("ex:Specification"), i),
                         Stmt(c1.id, "rdfs:label",
                              Literal(TxtSpecificationFor \o stage_desc), i) >>
                 ELSE <<>>
             c2 == create_gupri(c1.mappings, "QualityAttribute",
                                <<value_stream, stage_num, deliverable>>,
                                Hint(Take(safe_id(deliverable), 30)))
             stream_id == safe_id(OrElse(value_stream, TxtGeneric))
             stage_id == safe_id(stage_num)
             deliv_id == Take(safe_id(deliverable), 64)
             legacy_qa == legacy_cqa_alias(stream_id \o <<"-">> \o stage_id
                                            \o <<"-">> \o deliv_id)
         IN IF stage_num = <<>> \/ value_stream = <<>>
            THEN emit_deliverable_blocks_gupri(rs, i + 1, declared_specs, mappings, out)
            ELSE IF deliverable = <<>>
            THEN emit_deliverable_blocks_gupri(rs, i + 1, declared_specs \cup {spec_key},
                                               c1.mappings, out \o specStanza)
            ELSE emit_deliverable_blocks_gupri(rs, i + 1, declared_specs \cup {spec_key},
                    c2.mappings,
                    out \o specStanza
                        \o qa_stanza_gupri(rs[i], c2.id, legacy_qa, deliverable, i))

-----------------------------------------------------------------------------
(* SpecGen: one run of a stage-gate generator over a small list of rows *)

MkRow(vs, sg, desc, deliv, owner) ==
    (<<"Value Stream">> :> vs) @@ (<<"Stage Gate">> :> sg)
        @@ (<<"Stage Gate Description">> :> desc)
        @@ (<<"Deliverable">> :> deliv) @@ (<<"Owner">> :> owner)

\* value streams: absent, and two spellings with one slug
ValueStreams == {<<>>, <<"a">>, <<"A">>}
Descriptions == {<<>>, <<"K">>}
\* (deliverable, owner): none; two owners; no owner; only blank owner parts;
\* another spelling of an owner named before
DeliverableOwners ==
    { <<<<>>, <<>>>>,
      <<<<"x">>, <<"p", ",", " ", "q">>>>,
      <<<<"y">>, <<>>>>,
      <<<<"y">>, <<",">>>>,
      <<<<"z">>, <<"P">>>> }

\* A row without a stage number is skipped by every loop, whatever else it
\* holds.  The value stream "a" comes with every description, deliverable and
\* owner; the other value streams with enough of them to share its stages.
\* The last row repeats the header texts, as the header line does when it is
\* read as data.
RowSet ==
    {MkRow(<<"a">>, <<>>, <<>>, <<"x">>, <<>>)}
    \cup {MkRow(<<"a">>, <<"0">>, d, dv[1], dv[2]) :
            d \in Descriptions, dv \in DeliverableOwners}
    \cup {MkRow(vs, <<"0">>, d, dv[1], dv[2]) :
            vs \in ValueStreams \ {<<"a">>}, d \in Descriptions,
            dv \in {<<<<>>, <<>>>>, <<<<"x">>, <<"p", ",", " ", "q">>>>}}
    \cup {MkRow(TxtValueStream, TxtStageGate, <<>>, <<"x">>, <<>>)}

RowLists == UNION {[1..n -> RowSet] : n \in 0..MaxRows}

\* generate_cmc_ttl.py main(), line 272
BuildStageInfo ==
    /\ script = "slug" /\ pcGen = "start"
    /\ stage_info' = build_stage_info(rows, 1, EmptyMap)
    /\ pcGen' = "info"
    /\ UNCHANGED <<script, rows, ttl>>
    /\ UNCHANGED <<csvVars, mintVars, lexVars>>
    /\ UNCHANGED <<extVars, appVars>>

\* generate_cmc_ttl.py main(), line 274
EmitStageBlocks ==
    /\ script = "slug" /\ pcGen = "info"
    /\ ttl' = emit_stage_blocks(rows, 1, {})
    /\ pcGen' = "stages"
    /\ UNCHANGED <<script, rows, stage_info>>
    /\ UNCHANGED <<csvVars, mintVars, lexVars>>
    /\ UNCHANGED <<extVars, appVars>>

\* generate_cmc_ttl.py main(), lines 275-279
EmitSpecsAndDeliverables ==
    /\ script = "slug" /\ pcGen = "stages"
    /\ ttl' = ttl \o emit_specs_and_deliverables(rows, 1, stage_info, {}, {})
    /\ pcGen' = "done"
    /\ UNCHANGED <<script, rows, stage_info>>
    /\ UNCHANGED <<csvVars, mintVars, lexVars>>
    /\ UNCHANGED <<extVars, appVars>>

\* generate_cmc_ttl_gupri.py main(), lines 308-310
GupriLoad ==
    /\ script = "gupri" /\ pcGen = "start"
    /\ ID_MAPPINGS' = load_id_mappings(EmptyMap, mappingFile)
    /\ pcGen' = "loaded"
    /\ UNCHANGED <<script, rows, stage_info, ttl>>
    /\ UNCHANGED <<mappingFile, pcMint, run, nCalls, probe, last>>
    /\ UNCHANGED <<csvVars, lexVars>>
    /\ UNCHANGED <<extVars, appVars>>

\* generate_cmc_ttl_gupri.py main(), line 328
GupriEmitStages ==
    /\ script = "gupri" /\ pcGen = "loaded"
    /\ LET r == emit_stage_blocks_gupri(rows, 1, {}, ID_MAPPINGS, <<>>)
       IN /\ ttl' = r.ttl
          /\ ID_MAPPINGS' = r.mappings
    /\ pcGen' = "stages"
    /\ UNCHANGED <<script, rows, stage_info>>
    /\ UNCHANGED <<mappingFile, pcMint, run, nCalls, probe, last>>
    /\ UNCHANGED <<csvVars, lexVars>>
    /\ UNCHANGED <<extVars, appVars>>

\* generate_cmc_ttl_gupri.py main(), lines 331-337
GupriEmitDeliverables ==
    /\ script = "gupri" /\ pcGen = "stages"
    /\ LET r == emit_deliverable_blocks_gupri(rows, 1, {}, ID_MAPPINGS, <<>>)
       IN /\ ttl' = ttl \o r.ttl
          /\ ID_MAPPINGS' = r.mappings
    /\ pcGen' = "written"
    /\ UNCHANGED <<script, rows, stage_info>>
    /\ UNCHANGED <<mappingFile, pcMint, run, nCalls, probe, last>>
    /\ UNCHANGED <<csvVars, lexVars>>
    /\ UNCHANGED <<extVars, appVars>>

\* generate_cmc_ttl_gupri.py main(), lines 339-346
GupriSave ==
    /\ script = "gupri" /\ pcGen = "written"
    /\ mappingFile' = save_id_mappings(ID_MAPPINGS)
    /\ pcGen' = "done"
    /\ UNCHANGED <<script, rows, stage_info, ttl>>
    /\ UNCHANGED <<ID_MAPPINGS, pcMint, run, nCalls, probe, last>>
    /\ UNCHANGED <<csvVars, lexVars>>
    /\ UNCHANGED <<extVars, appVars>>

-----------------------------------------------------------------------------
IdleGen ==
    /\ script = "none"
    /\ rows = <<>>
    /\ pcGen = "off"
    /\ stage_info = EmptyMap
    /\ ttl = <<>>

-----------------------------------------------------------------------------
(* The literal escapers of generate_sme_ttl.py and generate_lexicon_ttl.py;
   those of generate_cmc_ttl.py and generate_cmc_ttl_gupri.py are above *)

\* escape_turtle_literal of generate_sme_ttl.py: the replacements in code order
escape_turtle_literal_sme(value) ==
    LET v1 == Replace(value, <<"\\">>, <<"\\", "\\">>)
        v2 == Replace(v1, <<"\"">>, <<"\\", "\"">>)
        v3 == Replace(v2, <<"\r">>, <<"\\", "n">>)
        v4 == Replace(v3, <<"\n">>, <<"\\", "n">>)
    IN Replace(v4, <<"\t">>, <<"\\", "t">>)

\* escape_turtle_literal of generate_lexicon_ttl.py: the literal with its quotes
escape_turtle_literal_lexicon(raw) ==
    LET value == Strip(raw)
    IN IF Contains(value, "\n") \/ Contains(value, "\r")
       THEN LET v1 == Replace(value, <<"\\">>, <<"\\", "\\">>)
                v2 == Replace(v1, <<"\"", "\"", "\"">>,
                              <<"\\", "\"", "\\", "\"", "\\", "\"">>)
            IN <<"\"", "\"", "\"">> \o v2 \o <<"\"", "\"", "\"">>
       ELSE LET v1 == Replace(value, <<"\\">>, <<"\\", "\\">>)
                v2 == Replace(v1, <<"\"">>, <<"\\", "\"">>)
                v3 == Replace(v2, <<"\t">>, <<"\\", "t">>)
                v4 == Replace(v3, <<"\r">>, <<"\\", "r">>)
                v5 == Replace(v4, <<"\n">>, <<"\\", "n">>)
            IN <<"\"">> \o v5 \o <<"\"">>

IdleEsc ==
    /\ escIn = <<>>
    /\ escOut = <<>>
    /\ pcEsc = "off"

\* SpecEsc: each escaper applied to every short string over an ordinary
\* character, a space, the double quote, the backslash, TAB, LF and CR
EscAlphabet == {"n", " ", "\"", "\\", "\t", "\n", "\r"}

EscInputs == UNION {[1..n -> EscAlphabet] : n \in 0..MaxLen}

EscapeSlug ==
    /\ pcEsc = "start"
    /\ escOut' = escape_turtle_literal(escIn)
    /\ pcEsc' = "slug"
    /\ UNCHANGED escIn
    /\ UNCHANGED <<csvVars, mintVars, lexVars, genVars, cmbVars, upVars, appVars>>

EscapeSme ==
    /\ pcEsc = "start"
    /\ escOut' = escape_turtle_literal_sme(escIn)
    /\ pcEsc' = "sme"
    /\ UNCHANGED escIn
    /\ UNCHANGED <<csvVars, mintVars, lexVars, genVars, cmbVars, upVars, appVars>>

EscapeGupri ==
    /\ pcEsc = "start"
    /\ escOut' = escape_turtle_literal_gupri(escIn)
    /\ pcEsc' = "gupri"
    /\ UNCHANGED escIn
    /\ UNCHANGED <<csvVars, mintVars, lexVars, genVars, cmbVars, upVars, appVars>>

EscapeLexicon ==
    /\ pcEsc = "start"
    /\ escOut' = escape_turtle_literal_lexicon(escIn)
    /\ pcEsc' = "lexicon"
    /\ UNCHANGED escIn
    /\ UNCHANGED <<csvVars, mintVars, lexVars, genVars, cmbVars, upVars, appVars>>

-----------------------------------------------------------------------------
(* combine_ttls.py.  A file is a list of lines (content.split('\n')); a line
   is a sequence of one-character tokens, but for the word "@prefix", which
   the code only tests with startswith and which no other word of the model
   begins with. *)

\* str.split() without arguments: the maximal runs of non-white-space tokens
RECURSIVE SplitWsAcc(_, _)
SplitWsAcc(s, cur) ==
    IF s = <<>> THEN (IF cur = <<>> THEN <<>> ELSE <<cur>>)
    ELSE IF Head(s) \in WhiteSpace
    THEN (IF cur = <<>> THEN <<>> ELSE <<cur>>) \o SplitWsAcc(Tail(s), <<>>)
    ELSE SplitWsAcc(Tail(s), Append(cur, Head(s)))

SplitWs(s) == SplitWsAcc(s, <<>>)

\* line.startswith(word)
StartsWith(line, word) == line # <<>> /\ Head(line) = word

\* ord(c) of the characters of the model's lines
CodePoint(c) ==
    CASE c = " " -> 32 [] c = "#" -> 35 [] c = "." -> 46 [] c = ":" -> 58
      [] c = "<" -> 60 [] c = ">" -> 62 [] c = "b" -> 98 [] c = "p" -> 112
      [] c = "q" -> 113 [] c = "s" -> 115 [] c = "x" -> 120

\* a < b for Python str
RECURSIVE StrLess(_, _)
StrLess(a, b) ==
    IF b = <<>> THEN FALSE
    ELSE IF a = <<>> THEN TRUE
    ELSE IF Head(a) = Head(b) THEN StrLess(Tail(a), Tail(b))
    ELSE CodePoint(Head(a)) < CodePoint(Head(b))

RECURSIVE NamesDescending(_)
NamesDescending(names) ==
    IF names = {} THEN <<>>
    ELSE LET most == CHOOSE x \in names : \A y \in names : x = y \/ StrLess(y, x)
         IN <<most>> \o NamesDescending(names \ {most})

\* sorted(names)
RECURSIVE SortedNames(_)
SortedNames(names) ==
    IF names = {} THEN <<>>
    ELSE LET least == CHOOSE x \in names : \A y \in names : x = y \/ StrLess(x, y)
         IN <<least>> \o SortedNames(names \ {least})

combine_line_keep_first(prefixes, triples, raw) ==
    LET line == Strip(raw)
        parts == SplitWs(line)
    IN IF StartsWith(line, "@prefix")
       THEN IF Len(parts) >= 3 /\ parts[2] \notin DOMAIN prefixes
            THEN [prefixes |-> Put(prefixes, parts[2],
                                   Join(SubSeq(parts, 3, Len(parts)), <<" ">>)),
                  triples |-> triples]
            ELSE [prefixes |-> prefixes, triples |-> triples]
       ELSE IF line # <<>> /\ ~StartsWith(line, "#")
       THEN [prefixes |-> prefixes, triples |-> Append(triples, line)]
       ELSE [prefixes |-> prefixes, triples |-> triples]

combine_line_keep_comments(prefixes, triples, raw) ==
    LET line == Strip(raw)
        parts == SplitWs(line)
    IN IF StartsWith(line, "@prefix")
       THEN IF Len(parts) >= 3
            THEN [prefixes |-> Put(prefixes, parts[2],
                                   Join(SubSeq(parts, 3, Len(parts)), <<" ">>)),
                  triples |-> triples]
            ELSE [prefixes |-> prefixes, triples |-> triples]
       ELSE IF line # <<>>
       THEN [prefixes |-> prefixes, triples |-> Append(triples, line)]
       ELSE [prefixes |-> prefixes, triples |-> triples]

\* lines 54-65: one line of one file
combine_line(prefixes, triples, raw) ==
    LET line == Strip(raw)
        parts == SplitWs(line)
    IN IF StartsWith(line, "@prefix")
       THEN IF Len(parts) >= 3
            THEN [prefixes |-> Put(prefixes, parts[2],
                                   Join(SubSeq(parts, 3, Len(parts)), <<" ">>)),
                  triples |-> triples]
            ELSE [prefixes |-> prefixes, triples |-> triples]
       ELSE IF line # <<>> /\ ~StartsWith(line, "#")
       THEN [prefixes |-> prefixes, triples |-> Append(triples, line)]
       ELSE [prefixes |-> prefixes, triples |-> triples]

\* line 71: f"@prefix {prefix_name} {prefix_uri}"
prefix_line(prefix_name, prefix_uri) ==
    <<"@prefix", " ">> \o prefix_name \o <<" ">> \o prefix_uri

\* lines 68-76: the text written, as its lines
combined_text(prefixes, triples) ==
    LET names == SortedNames(DOMAIN prefixes)
    IN [k \in 1..Len(names) |-> prefix_line(names[k], prefixes[names[k]])]
       \o << <<>> >>
       \o (IF triples = <<>> THEN << <<>> >> ELSE triples)

MissingFile == [exists |-> FALSE, lines |-> <<>>]

IdleCmb ==
    /\ ttlIn = <<>>
    /\ all_prefixes = EmptyMap
    /\ all_triples = <<>>
    /\ ttlOut = <<>>
    /\ pcCmb = "off"

\* SpecCmb: combine_ttl_files over every short list of small files
LnXP == <<"@prefix", " ", "x", ":", " ", "<", "p", ">", " ", ".">>
LnXQ == <<"@prefix", " ", "x", ":", " ", "<", "q", ">", " ", ".">>
LnBP == <<"@prefix", " ", "b", ":", " ", "<", "p", ">", " ", ".">>
\* the declaration of LnXP with other white space
LnXPWide == <<" ", "@prefix", " ", "x", ":", " ", " ", "<", "p", ">", " ", ".">>
\* the declaration of LnXP without white space between the name and the IRI
LnXPTight == <<"@prefix", " ", "x", ":", "<", "p", ">", " ", ".">>
LnTriple == <<"s", " ", ".">>
LnIndented == <<" ", "s", " ", "s", " ", ".">>
LnComment == <<"#", " ", "s">>
LnEmpty == <<>>

TtlLines ==
    {LnXP, LnXQ, LnBP, LnXPWide, LnXPTight, LnTriple, LnIndented, LnComment, LnEmpty}

\* files named so far plus lines read so far
TtlUnits ==
    LET n[k \in 0..Len(ttlIn)] ==
            IF k = 0 THEN 0
            ELSE n[k - 1] + (IF ttlIn[k].exists THEN Len(ttlIn[k].lines) ELSE 1)
    IN n[Len(ttlIn)]

\* lines 41-45: the next path of input_files does not exist
CombineSkipMissing ==
    /\ pcCmb = "reading"
    /\ TtlUnits < MaxTtlLines
    /\ ttlIn' = Append(ttlIn, MissingFile)
    /\ UNCHANGED <<all_prefixes, all_triples, ttlOut, pcCmb>>
    /\ UNCHANGED <<csvVars, mintVars, lexVars, genVars, escVars, upVars, appVars>>

\* lines 41-65: the next path exists; its first line
CombineOpenFile ==
    /\ pcCmb = "reading"
    /\ TtlUnits < MaxTtlLines
    /\ \E raw \in TtlLines :
         LET r == combine_line(all_prefixes, all_triples, raw)
         IN /\ ttlIn' = Append(ttlIn, [exists |-> TRUE, lines |-> <<raw>>])
            /\ all_prefixes' = r.prefixes
            /\ all_triples' = r.triples
    /\ UNCHANGED <<ttlOut, pcCmb>>
    /\ UNCHANGED <<csvVars, mintVars, lexVars, genVars, escVars, upVars, appVars>>

\* lines 54-65: the next line of the file being read
CombineLine ==
    /\ pcCmb = "reading"
    /\ TtlUnits < MaxTtlLines
    /\ ttlIn # <<>> /\ ttlIn[Len(ttlIn)].exists
    /\ \E raw \in TtlLines :
         LET r == combine_line(all_prefixes, all_triples, raw)
             cur == ttlIn[Len(ttlIn)]
         IN /\ ttlIn' = [ttlIn EXCEPT ![Len(ttlIn)] =
                            [exists |-> TRUE, lines |-> Append(cur.lines, raw)]]
            /\ all_prefixes' = r.prefixes
            /\ all_triples' = r.triples
    /\ UNCHANGED <<ttlOut, pcCmb>>
    /\ UNCHANGED <<csvVars, mintVars, lexVars, genVars, escVars, upVars, appVars>>

\* lines 67-76: write the combined file
CombineWrite ==
    /\ pcCmb = "reading"
    /\ ttlOut' = combined_text(all_prefixes, all_triples)
    /\ pcCmb' = "done"
    /\ UNCHANGED <<ttlIn, all_prefixes, all_triples>>
    /\ UNCHANGED <<csvVars, mintVars, lexVars, genVars, escVars, upVars, appVars>>

-----------------------------------------------------------------------------
(* export_to_graphdb.py: upload_file.  Delays are whole seconds (1.0, 2.0,
   ... 30.0 are exact floats).  sleeps lists the arguments of time.sleep in
   call order; transient and failures count the HTTP 429/5xx responses and
   the other exceptions of urlopen. *)

is_transient_through_600(code) == code = 429 \/ (500 <= code /\ code <= 600)

\* line 97: status == 429 or 500 <= status < 600
is_transient(code) == code = 429 \/ (500 <= code /\ code < 600)

retries_exhausted_early(n, limit) == n + 1 >= limit

retries_exhausted_late(n, limit) == n > limit

\* lines 98 and 105: attempt >= max_retries
retries_exhausted(n, limit) == n >= limit

next_backoff_uncapped(b) == b * 2

\* lines 101 and 108: min(backoff * 2, 30.0)
next_backoff(b) == IF b * 2 < 30 THEN b * 2 ELSE 30

NoResult == [ok |-> FALSE, status |-> 0, msg |-> "none"]

IdleUp ==
    /\ max_retries = 0
    /\ attempt = 0
    /\ backoff = 0
    /\ sleeps = <<>>
    /\ status = 0
    /\ transient = 0
    /\ failures = 0
    /\ upResult = NoResult
    /\ pcUp = "off"

\* SpecUp: one call of upload_file against an endpoint that answers each POST
\* with a success, an HTTP error or a connection error
SuccessCodes == {200, 204}
HttpErrorCodes == {404, 429, 499, 500, 599, 600}
ConnectionError == -1

\* lines 84-93: the POST is answered with a success status
UploadOk ==
    /\ pcUp = "loop"
    /\ attempt' = attempt + 1
    /\ \E code \in SuccessCodes :
         /\ status' = code
         /\ upResult' = [ok |-> TRUE, status |-> code, msg |-> "OK"]
    /\ pcUp' = "done"
    /\ UNCHANGED <<max_retries, backoff, sleeps, transient, failures>>
    /\ posts' = Append(posts, fileIdx)
    /\ UNCHANGED <<dry_run_flags, dry_run, files, fileIdx, exitCode, pcMain>>
    /\ UNCHANGED <<csvVars, mintVars, lexVars, genVars, escVars, cmbVars, runVars, simVars>>

\* lines 84-103: urlopen raises HTTPError
UploadHttpError ==
    /\ pcUp = "loop"
    /\ attempt' = attempt + 1
    /\ \E code \in HttpErrorCodes :
         /\ status' = code
         /\ IF is_transient(code)
            THEN /\ transient' = transient + 1
                 /\ IF retries_exhausted(attempt', max_retries)
                    THEN /\ upResult' = [ok |-> FALSE, status |-> code,
                                         msg |-> "HTTPError after attempts"]
                         /\ pcUp' = "done"
                         /\ UNCHANGED <<sleeps, backoff>>
                    ELSE /\ sleeps' = Append(sleeps, backoff)
                         /\ backoff' = next_backoff(backoff)
                         /\ UNCHANGED <<upResult, pcUp>>
            ELSE /\ upResult' = [ok |-> FALSE, status |-> code, msg |-> "HTTPError"]
                 /\ pcUp' = "done"
                 /\ UNCHANGED <<transient, sleeps, backoff>>
    /\ UNCHANGED <<max_retries, failures>>
    /\ posts' = Append(posts, fileIdx)
    /\ UNCHANGED <<dry_run_flags, dry_run, files, fileIdx, exitCode, pcMain>>
    /\ UNCHANGED <<csvVars, mintVars, lexVars, genVars, escVars, cmbVars, runVars, simVars>>

\* lines 84-91 and 104-109: urlopen raises another exception
UploadException ==
    /\ pcUp = "loop"
    /\ attempt' = attempt + 1
    /\ status' = ConnectionError
    /\ failures' = failures + 1
    /\ IF retries_exhausted(attempt', max_retries)
       THEN /\ upResult' = [ok |-> FALSE, status |-> ConnectionError,
                            msg |-> "Error after attempts"]
            /\ pcUp' = "done"
            /\ UNCHANGED <<sleeps, backoff>>
       ELSE /\ sleeps' = Append(sleeps, backoff)
            /\ backoff' = next_backoff(backoff)
            /\ UNCHANGED <<upResult, pcUp>>
    /\ UNCHANGED <<max_retries, transient>>
    /\ posts' = Append(posts, fileIdx)
    /\ UNCHANGED <<dry_run_flags, dry_run, files, fileIdx, exitCode, pcMain>>
    /\ UNCHANGED <<csvVars, mintVars, lexVars, genVars, escVars, cmbVars, runVars, simVars>>

-----------------------------------------------------------------------------
(* export_to_graphdb.py: parse_args and main.  files holds, for each path of
   --files in order, whether the path exists; posts lists, for every POST
   sent, the position in files of the file it carried (0 for a call of
   upload_file made outside main). *)

parse_dry_run_default_off(flags) ==
    IF flags = <<>> THEN FALSE ELSE flags[Len(flags)] = "--dry-run"

\* lines 34-36: store_true / store_false on one dest, set_defaults(dry_run=True)
parse_dry_run(flags) ==
    IF flags = <<>> THEN TRUE ELSE flags[Len(flags)] = "--dry-run"

upload_failed_ignored(result) == FALSE

\* lines 133-137: if ok ... else ... return 1
upload_failed(result) == ~result.ok

IdleMain ==
    /\ dry_run_flags = <<>>
    /\ dry_run = FALSE
    /\ files = <<>>
    /\ fileIdx = 0
    /\ posts = <<>>
    /\ exitCode = 0
    /\ pcMain = "off"

DryRunFlags == {"--dry-run", "--no-dry-run"}
FlagLists == UNION {[1..n -> DryRunFlags] : n \in 0..2}
FileLists == UNION {[1..n -> BOOLEAN] : n \in 0..MaxFiles}
RetryChoices == {1, 2}

\* line 113: args = parse_args(argv)
MainParseArgs ==
    /\ pcMain = "args"
    /\ dry_run' = parse_dry_run(dry_run_flags)
    /\ fileIdx' = 1
    /\ pcMain' = "files"
    /\ UNCHANGED <<dry_run_flags, files, posts, exitCode>>
    /\ UNCHANGED <<csvVars, mintVars, lexVars, genVars, extVars, runVars, simVars>>

\* lines 122-126: the path does not exist
MainSkipMissing ==
    /\ pcMain = "files"
    /\ fileIdx <= Len(files)
    /\ ~files[fileIdx]
    /\ fileIdx' = fileIdx + 1
    /\ UNCHANGED <<dry_run_flags, dry_run, files, posts, exitCode, pcMain>>
    /\ UNCHANGED <<csvVars, mintVars, lexVars, genVars, extVars, runVars, simVars>>

\* lines 122-131: the path exists and dry-run is in effect
MainDryRunFile ==
    /\ pcMain = "files"
    /\ fileIdx <= Len(files)
    /\ files[fileIdx]
    /\ dry_run
    /\ fileIdx' = fileIdx + 1
    /\ UNCHANGED <<dry_run_flags, dry_run, files, posts, exitCode, pcMain>>
    /\ UNCHANGED <<csvVars, mintVars, lexVars, genVars, extVars, runVars, simVars>>

\* lines 122-132 and 79-81: upload_file is entered for an existing path
MainCallUpload ==
    /\ pcMain = "files"
    /\ fileIdx <= Len(files)
    /\ files[fileIdx]
    /\ ~dry_run
    /\ attempt' = 0
    /\ backoff' = 1
    /\ sleeps' = <<>>
    /\ status' = 0
    /\ transient' = 0
    /\ failures' = 0
    /\ upResult' = NoResult
    /\ pcUp' = "loop"
    /\ pcMain' = "uploading"
    /\ UNCHANGED max_retries
    /\ UNCHANGED <<dry_run_flags, dry_run, files, fileIdx, posts, exitCode>>
    /\ UNCHANGED <<csvVars, mintVars, lexVars, genVars, escVars, cmbVars, runVars, simVars>>

\* lines 132-137: upload_file has returned
MainUploadReturned ==
    /\ pcMain = "uploading"
    /\ pcUp = "done"
    /\ IF upload_failed(upResult)
       THEN /\ exitCode' = 1
            /\ pcMain' = "done"
            /\ UNCHANGED fileIdx
       ELSE /\ fileIdx' = fileIdx + 1
            /\ pcMain' = "files"
            /\ UNCHANGED exitCode
    /\ UNCHANGED <<dry_run_flags, dry_run, files, posts>>
    /\ UNCHANGED <<csvVars, mintVars, lexVars, genVars, extVars, runVars, simVars>>

\* lines 139-140: the list is exhausted
MainDone ==
    /\ pcMain = "files"
    /\ fileIdx > Len(files)
    /\ exitCode' = 0
    /\ pcMain' = "done"
    /\ UNCHANGED <<dry_run_flags, dry_run, files, fileIdx, posts>>
    /\ UNCHANGED <<csvVars, mintVars, lexVars, genVars, extVars, runVars, simVars>>

-----------------------------------------------------------------------------
(* The entry points that read a CSV, and their readers.  A file is a sequence
   of bytes, of three kinds: "a" is an ASCII byte, "BOM" the bytes EF BB BF
   and "E9" a byte E9 that no continuation byte follows.  A decoded text is a
   sequence of characters. *)

Encodings == {"ascii", "utf-8", "utf-8-sig", "latin-1"}

\* whether bytes.decode(enc) succeeds
decodes(enc, bytes) ==
    CASE enc = "ascii" -> \A k \in 1..Len(bytes) : bytes[k] = "a"
      [] enc \in {"utf-8", "utf-8-sig"} -> \A k \in 1..Len(bytes) : bytes[k] # "E9"
      [] enc = "latin-1" -> TRUE

RECURSIVE decode_each(_, _)
decode_each(enc, bytes) ==
    IF bytes = <<>> THEN <<>>
    ELSE (CASE Head(bytes) = "a" -> <<"a">>
            [] Head(bytes) = "BOM" ->
                  (IF enc = "latin-1" THEN <<"U+00EF", "U+00BB", "U+00BF">>
                   ELSE <<"U+FEFF">>)
            [] Head(bytes) = "E9" -> <<"U+00E9">>)
         \o decode_each(enc, Tail(bytes))

\* bytes.decode(enc) where it succeeds: utf-8-sig drops one leading BOM
decode_text(enc, bytes) ==
    IF enc = "utf-8-sig" /\ bytes # <<>> /\ Head(bytes) = "BOM"
    THEN decode_each(enc, Tail(bytes))
    ELSE decode_each(enc, bytes)

\* the outcome of one read of a file: the encodings tried in order, whether
\* the last one decoded, and the text
ReadOutcome(encs, bytes) ==
    [tried |-> encs,
     ok |-> decodes(encs[Len(encs)], bytes),
     text |-> IF decodes(encs[Len(encs)], bytes)
              THEN decode_text(encs[Len(encs)], bytes) ELSE <<>>]

read_csv_no_fallback(enc, bytes) == ReadOutcome(<<enc>>, bytes)

\* extract_xlsx.py lines 113-117 and 134-137: pd.read_csv with the given
\* encoding, and once more with utf-8-sig after a UnicodeDecodeError
read_csv_with_fallback(enc, bytes) ==
    IF decodes(enc, bytes) THEN ReadOutcome(<<enc>>, bytes)
    ELSE ReadOutcome(<<enc, "utf-8-sig">>, bytes)

\* open(path, encoding="utf-8") of the generators and of analyze_columns.py:
\* one attempt
open_utf8(bytes) == ReadOutcome(<<"utf-8">>, bytes)

CsvScripts == {"generate_cmc_ttl", "generate_cmc_ttl_gupri", "analyze_columns",
               "generate_sme_ttl", "generate_lexicon_ttl"}
EntryPoints == CsvScripts \cup {"extract_xlsx"}

\* what the process exits with when the required input path is missing
missing_input_exit(name) ==
    CASE name \in {"generate_cmc_ttl", "analyze_columns", "extract_xlsx"} -> 2
      [] name = "generate_cmc_ttl_gupri" -> 1
      [] name \in {"generate_sme_ttl", "generate_lexicon_ttl"} -> 0

IdleRun ==
    /\ entry = "none"
    /\ inputKind = "none"
    /\ encoding = "none"
    /\ combine = FALSE
    /\ csvIn = <<>>
    /\ csvIdx = 0
    /\ tried = <<>>
    /\ decoded = <<>>
    /\ raised = FALSE
    /\ runExit = 0
    /\ pcRun = "off"

ByteKinds == {"a", "BOM", "E9"}
CsvByteFiles == UNION {[1..n -> ByteKinds] : n \in 0..MaxBytes}

\* the required input path is missing (for extract_xlsx: missing, or not a
\* directory)
RunMissingInput ==
    /\ pcRun = "start"
    /\ inputKind # "ok"
    /\ runExit' = missing_input_exit(entry)
    /\ pcRun' = "done"
    /\ UNCHANGED <<entry, inputKind, encoding, combine, csvIn, csvIdx, tried, decoded, raised>>
    /\ UNCHANGED <<csvVars, mintVars, lexVars, genVars, extVars, mainVars, simVars>>

\* a generator or analyze_columns reads its CSV; a UnicodeDecodeError leaves
\* main and ends the process with status 1
RunOpenCsv ==
    /\ pcRun = "start"
    /\ inputKind = "ok"
    /\ entry \in CsvScripts
    /\ LET r == open_utf8(csvIn[1])
       IN /\ tried' = Append(tried, r.tried)
          /\ IF r.ok
             THEN /\ decoded' = Append(decoded, r.text)
                  /\ pcRun' = "read"
                  /\ UNCHANGED <<raised, runExit>>
             ELSE /\ raised' = TRUE
                  /\ runExit' = 1
                  /\ pcRun' = "done"
                  /\ UNCHANGED decoded
    /\ csvIdx' = 1
    /\ UNCHANGED <<entry, inputKind, encoding, combine, csvIn>>
    /\ UNCHANGED <<csvVars, mintVars, lexVars, genVars, extVars, mainVars, simVars>>

\* the rest of the script after a successful read
RunFinish ==
    /\ pcRun = "read"
    /\ runExit' = 0
    /\ pcRun' = "done"
    /\ UNCHANGED <<entry, inputKind, encoding, combine, csvIn, csvIdx, tried, decoded, raised>>
    /\ UNCHANGED <<csvVars, mintVars, lexVars, genVars, extVars, mainVars, simVars>>

\* extract_xlsx.py main, lines 181-186 and 201-202
ExtractScan ==
    /\ pcRun = "start"
    /\ inputKind = "ok"
    /\ entry = "extract_xlsx"
    /\ IF combine
       THEN /\ pcRun' = "combine"
            /\ csvIdx' = 1
            /\ UNCHANGED runExit
       ELSE /\ pcRun' = "done"
            /\ runExit' = 0
            /\ UNCHANGED csvIdx
    /\ UNCHANGED <<entry, inputKind, encoding, combine, csvIn, tried, decoded, raised>>
    /\ UNCHANGED <<csvVars, mintVars, lexVars, genVars, extVars, mainVars, simVars>>

\* build_combined_dataframe / read_csv_files read the next CSV; a
\* UnicodeDecodeError that leaves them is caught by main, lines 190-192
ExtractReadCsv ==
    /\ pcRun = "combine"
    /\ csvIdx <= Len(csvIn)
    /\ LET r == read_csv_with_fallback(encoding, csvIn[csvIdx])
       IN /\ tried' = Append(tried, r.tried)
          /\ IF r.ok
             THEN /\ decoded' = Append(decoded, r.text)
                  /\ csvIdx' = csvIdx + 1
                  /\ UNCHANGED <<raised, runExit, pcRun>>
             ELSE /\ raised' = TRUE
                  /\ runExit' = 1
                  /\ pcRun' = "done"
                  /\ UNCHANGED <<decoded, csvIdx>>
    /\ UNCHANGED <<entry, inputKind, encoding, combine, csvIn>>
    /\ UNCHANGED <<csvVars, mintVars, lexVars, genVars, extVars, mainVars, simVars>>

\* extract_xlsx.py main, lines 194-202
ExtractFinish ==
    /\ pcRun = "combine"
    /\ csvIdx > Len(csvIn)
    /\ runExit' = 0
    /\ pcRun' = "done"
    /\ UNCHANGED <<entry, inputKind, encoding, combine, csvIn, csvIdx, tried, decoded, raised>>
    /\ UNCHANGED <<csvVars, mintVars, lexVars, genVars, extVars, mainVars, simVars>>

-----------------------------------------------------------------------------
(* StageGateSimulator.  deliverable_status is the dict of that name, held as
   the sequence of its entries in insertion order, each with its key in id.
   now counts the readings of datetime.now(): a date is the number of the
   reading that produced it, and 0 stands for None. *)

\* line 91: deliverable['text'][:30]
IdTextLen == 30

\* line 91: f"{deliverable['functional_area']}-{deliverable['text'][:30]}"
deliverable_id(deliverable) ==
    <<deliverable.functional_area, "-">> \o Take(deliverable.text, IdTextLen)

\* the position of key id in the dict, 0 when it is not a key
KeyIndex(ds, id) ==
    IF \E k \in 1..Len(ds) : ds[k].id = id
    THEN CHOOSE k \in 1..Len(ds) : ds[k].id = id
    ELSE 0

\* lines 92-100
PendingEntry(deliverable) ==
    [id |-> deliverable_id(deliverable),
     text |-> deliverable.text,
     functional_area |-> deliverable.functional_area,
     status |-> "pending",
     assigned_to |-> "None",
     started_date |-> 0,
     completed_date |-> 0,
     notes |-> <<>>]

\* lines 88-100: initialize_workflow, from deliverable i on
RECURSIVE initialize_workflow(_, _, _)
initialize_workflow(ds, deliverables, i) ==
    IF i > Len(deliverables) THEN ds
    ELSE LET e == PendingEntry(deliverables[i])
             k == KeyIndex(ds, e.id)
         IN initialize_workflow(IF k = 0 THEN Append(ds, e) ELSE [ds EXCEPT ![k] = e],
                                deliverables, i + 1)

\* lines 102-108
assign_deliverable(ds, id, owner) ==
    LET k == KeyIndex(ds, id)
    IN IF k # 0
       THEN [ds |-> [ds EXCEPT ![k].assigned_to = owner, ![k].status = "assigned"],
             ret |-> TRUE]
       ELSE [ds |-> ds, ret |-> FALSE]

start_deliverable_unguarded(ds, id, date) ==
    LET k == KeyIndex(ds, id)
    IN IF k # 0
       THEN [ds |-> [ds EXCEPT ![k].status = "in_progress", ![k].started_date = date],
             ret |-> TRUE]
       ELSE [ds |-> ds, ret |-> FALSE]

\* lines 110-117; date is the value of datetime.now()
start_deliverable(ds, id, date) ==
    LET k == KeyIndex(ds, id)
    IN IF k # 0 /\ ds[k].status = "assigned"
       THEN [ds |-> [ds EXCEPT ![k].status = "in_progress", ![k].started_date = date],
             ret |-> TRUE]
       ELSE [ds |-> ds, ret |-> FALSE]

\* lines 119-128
complete_deliverable(ds, id, notes, date) ==
    LET k == KeyIndex(ds, id)
    IN IF k # 0 /\ ds[k].status = "in_progress"
       THEN [ds |-> [ds EXCEPT ![k].status = "completed",
                               ![k].completed_date = date,
                               ![k].notes = IF notes # <<>> THEN Append(@, notes) ELSE @],
             ret |-> TRUE]
       ELSE [ds |-> ds, ret |-> FALSE]

\* the number of entries of ds whose status is in statuses
CountStatus(ds, statuses) == Cardinality({k \in 1..Len(ds) : ds[k].status \in statuses})

\* lines 130-160: get_gate_readiness; readiness_percentage is
\* completed / total * 100, held as the fraction it is computed from, and it
\* equals 100 exactly when the two counts are equal
get_gate_readiness(ds) ==
    LET total == Len(ds)
        completed == CountStatus(ds, {"completed"})
        areas == {ds[k].functional_area : k \in 1..Len(ds)}
    IN [total_deliverables |-> total,
        completed |-> completed,
        in_progress |-> CountStatus(ds, {"in_progress"}),
        pending |-> CountStatus(ds, {"pending", "assigned"}),
        readiness_percentage |-> IF total > 0 THEN <<completed * 100, total>> ELSE <<0, 1>>,
        can_pass_gate |-> total > 0 /\ completed * 100 = 100 * total,
        by_functional_area |->
            [a \in areas |->
                [completed |-> Cardinality({k \in 1..Len(ds) :
                                   ds[k].functional_area = a /\ ds[k].status = "completed"}),
                 total |-> Cardinality({k \in 1..Len(ds) : ds[k].functional_area = a})]]]

\* line 202: int(len(deliverable_ids) * 0.7); the float product truncates to
\* this value for every n below 90
sample_size(n) == (n * 7) \div 10

\* lines 173-179
team_members ==
    <<"Alice Johnson (AD Lead)", "Bob Smith (API Specialist)", "Carol Davis (CMC Manager)",
      "David Wilson (Discovery)", "Eve Martinez (Materials)">>

NoSimCall == [op |-> "none", id |-> <<>>, ret |-> FALSE]
NoReadiness == [total_deliverables |-> 0, completed |-> 0, in_progress |-> 0, pending |-> 0,
                readiness_percentage |-> <<0, 1>>, can_pass_gate |-> FALSE,
                by_functional_area |-> EmptyMap]

IdleSim ==
    /\ data = <<>>
    /\ deliverable_status = <<>>
    /\ now = 0
    /\ simCall = NoSimCall
    /\ sample = {}
    /\ flowIdx = 0
    /\ readiness = NoReadiness
    /\ pcSim = "off"

\* a text of more than thirty characters, which ends in c
LongText(c) == [i \in 1..(IdTextLen + 1) |-> IF i <= IdTextLen THEN "x" ELSE c]

\* the deliverables of the JSON file: two of them differ after the thirtieth
\* character of their text only
SimDeliverables ==
    {[functional_area |-> "AD", text |-> <<"t">>],
     [functional_area |-> "API", text |-> <<"t">>],
     [functional_area |-> "AD", text |-> LongText("y")],
     [functional_area |-> "AD", text |-> LongText("z")]}
SimDataLists == UNION {[1..n -> SimDeliverables] : n \in 0..MaxDeliverables}
\* the files of at most two deliverables, for the sequences of single calls
SimShortLists == UNION {[1..n -> SimDeliverables] : n \in 0..2}
\* the ids handed to the methods: every key, and one that is no key
SimIds == {deliverable_id(d) : d \in SimDeliverables} \cup {<<"unknown">>}
SimNotes == {<<>>, <<"n">>}

\* initialize_workflow()
SimInitialize ==
    /\ pcSim = "new"
    /\ deliverable_status' = initialize_workflow(deliverable_status, data, 1)
    /\ simCall' = [op |-> "initialize_workflow", id |-> <<>>, ret |-> FALSE]
    /\ pcSim' = "ready"
    /\ UNCHANGED <<data, now, sample, flowIdx, readiness>>
    /\ UNCHANGED <<csvVars, mintVars, lexVars, genVars, extVars, mainVars, runVars>>

\* assign_deliverable(id, owner)
SimAssign ==
    /\ pcSim = "ready"
    /\ \E id \in SimIds :
         LET r == assign_deliverable(deliverable_status, id, team_members[1])
         IN /\ deliverable_status' = r.ds
            /\ simCall' = [op |-> "assign_deliverable", id |-> id, ret |-> r.ret]
    /\ UNCHANGED <<data, now, sample, flowIdx, readiness, pcSim>>
    /\ UNCHANGED <<csvVars, mintVars, lexVars, genVars, extVars, mainVars, runVars>>

\* start_deliverable(id)
SimStart ==
    /\ pcSim = "ready"
    /\ now < MaxClock
    /\ \E id \in SimIds :
         LET r == start_deliverable(deliverable_status, id, now + 1)
         IN /\ deliverable_status' = r.ds
            /\ now' = IF r.ret THEN now + 1 ELSE now
            /\ simCall' = [op |-> "start_deliverable", id |-> id, ret |-> r.ret]
    /\ UNCHANGED <<data, sample, flowIdx, readiness, pcSim>>
    /\ UNCHANGED <<csvVars, mintVars, lexVars, genVars, extVars, mainVars, runVars>>

\* complete_deliverable(id, notes)
SimComplete ==
    /\ pcSim = "ready"
    /\ now < MaxClock
    /\ \E id \in SimIds, notes \in SimNotes :
         LET r == complete_deliverable(deliverable_status, id, notes, now + 1)
         IN /\ deliverable_status' = r.ds
            /\ now' = IF r.ret THEN now + 1 ELSE now
            /\ simCall' = [op |-> "complete_deliverable", id |-> id, ret |-> r.ret]
    /\ UNCHANGED <<data, sample, flowIdx, readiness, pcSim>>
    /\ UNCHANGED <<csvVars, mintVars, lexVars, genVars, extVars, mainVars, runVars>>

(* simulate_workflow, one action per call it makes.  flowIdx is the position
   of the running loop in deliverable_ids, which is the order of the dict;
   sample holds the ids random.sample chose that are still to be started, and
   they are started in any order. *)

\* line 191: team_members[i % len(team_members)], i counted from 1 here
owner_of(i) == team_members[((i - 1) % Len(team_members)) + 1]

\* line 222
review_notes(details) == <<"Completed per requirements. Reviewed by ", details.assigned_to>>

needs_fast_track_pending(details) == details.status = "pending"

\* line 228
needs_fast_track(details) == details.status = "assigned"

\* the results random.sample(ids, k) can have, as sets
Samples(ids, k) == {c \in SUBSET ids : Cardinality(c) = k}

\* lines 169-170
FlowInitialize ==
    /\ pcSim = "flow"
    /\ deliverable_status' = initialize_workflow(deliverable_status, data, 1)
    /\ simCall' = [op |-> "initialize_workflow", id |-> <<>>, ret |-> FALSE]
    /\ flowIdx' = 1
    /\ pcSim' = "assign"
    /\ UNCHANGED <<data, now, sample, readiness>>
    /\ UNCHANGED <<csvVars, mintVars, lexVars, genVars, extVars, mainVars, runVars>>

\* lines 190-194: one round of the assignment loop
FlowAssign ==
    /\ pcSim = "assign"
    /\ flowIdx <= Len(deliverable_status)
    /\ LET id == deliverable_status[flowIdx].id
           r == assign_deliverable(deliverable_status, id, owner_of(flowIdx))
       IN /\ deliverable_status' = r.ds
          /\ simCall' = [op |-> "assign_deliverable", id |-> id, ret |-> r.ret]
    /\ flowIdx' = flowIdx + 1
    /\ UNCHANGED <<data, now, sample, readiness, pcSim>>
    /\ UNCHANGED <<csvVars, mintVars, lexVars, genVars, extVars, mainVars, runVars>>

\* line 202: random.sample(deliverable_ids, int(len(deliverable_ids) * 0.7))
FlowSample ==
    /\ pcSim = "assign"
    /\ flowIdx > Len(deliverable_status)
    /\ sample' \in Samples({deliverable_status[k].id : k \in 1..Len(deliverable_status)},
                           sample_size(Len(deliverable_status)))
    /\ pcSim' = "start"
    /\ UNCHANGED <<data, deliverable_status, now, simCall, flowIdx, readiness>>
    /\ UNCHANGED <<csvVars, mintVars, lexVars, genVars, extVars, mainVars, runVars>>

\* lines 202-205: one round of the loop over the sample
FlowStart ==
    /\ pcSim = "start"
    /\ \E id \in sample :
         LET r == start_deliverable(deliverable_status, id, now + 1)
         IN /\ deliverable_status' = r.ds
            /\ now' = IF r.ret THEN now + 1 ELSE now
            /\ simCall' = [op |-> "start_deliverable", id |-> id, ret |-> r.ret]
            /\ sample' = sample \ {id}
    /\ UNCHANGED <<data, flowIdx, readiness, pcSim>>
    /\ UNCHANGED <<csvVars, mintVars, lexVars, genVars, extVars, mainVars, runVars>>

\* line 208: the mid-point readiness
FlowMidpoint ==
    /\ pcSim = "start"
    /\ sample = {}
    /\ readiness' = get_gate_readiness(deliverable_status)
    /\ flowIdx' = 1
    /\ pcSim' = "complete"
    /\ UNCHANGED <<data, deliverable_status, now, simCall, sample>>
    /\ UNCHANGED <<csvVars, mintVars, lexVars, genVars, extVars, mainVars, runVars>>

\* lines 220-224: one round of the completion loop, and the step to the next
\* loop after its last round
FlowComplete ==
    /\ pcSim = "complete"
    /\ IF flowIdx <= Len(deliverable_status)
       THEN LET details == deliverable_status[flowIdx]
                r == complete_deliverable(deliverable_status, details.id,
                                          review_notes(details), now + 1)
            IN /\ IF details.status = "in_progress"
                  THEN /\ deliverable_status' = r.ds
                       /\ now' = IF r.ret THEN now + 1 ELSE now
                       /\ simCall' = [op |-> "complete_deliverable", id |-> details.id,
                                      ret |-> r.ret]
                  ELSE UNCHANGED <<deliverable_status, now, simCall>>
               /\ flowIdx' = flowIdx + 1
               /\ pcSim' = pcSim
       ELSE /\ flowIdx' = 1
            /\ pcSim' = "fast_track"
            /\ UNCHANGED <<deliverable_status, now, simCall>>
    /\ UNCHANGED <<data, sample, readiness>>
    /\ UNCHANGED <<csvVars, mintVars, lexVars, genVars, extVars, mainVars, runVars>>

\* lines 227-231: one round of the fast-track loop
FlowFastTrack ==
    /\ pcSim = "fast_track"
    /\ flowIdx <= Len(deliverable_status)
    /\ LET details == deliverable_status[flowIdx]
           started == start_deliverable(deliverable_status, details.id, now + 1)
           clock == IF started.ret THEN now + 1 ELSE now
           r == complete_deliverable(started.ds, details.id,
                                     <<"Fast-tracked completion">>, clock + 1)
       IN IF needs_fast_track(details)
          THEN /\ deliverable_status' = r.ds
               /\ now' = IF r.ret THEN clock + 1 ELSE clock
               /\ simCall' = [op |-> "complete_deliverable", id |-> details.id, ret |-> r.ret]
          ELSE UNCHANGED <<deliverable_status, now, simCall>>
    /\ flowIdx' = flowIdx + 1
    /\ UNCHANGED <<data, sample, readiness, pcSim>>
    /\ UNCHANGED <<csvVars, mintVars, lexVars, genVars, extVars, mainVars, runVars>>

\* lines 238-260: the final readiness, which simulate_workflow returns
FlowFinal ==
    /\ pcSim = "fast_track"
    /\ flowIdx > Len(deliverable_status)
    /\ readiness' = get_gate_readiness(deliverable_status)
    /\ pcSim' = "done"
    /\ UNCHANGED <<data, deliverable_status, now, simCall, sample, flowIdx>>
    /\ UNCHANGED <<csvVars, mintVars, lexVars, genVars, extVars, mainVars, runVars>>

IdleApp == IdleMain /\ IdleRun /\ IdleSim

IdleExt == IdleEsc /\ IdleCmb /\ IdleUp

-----------------------------------------------------------------------------
(* Specifications *)

InitCsv ==
    /\ csvFile \in CsvFiles
    /\ pcCsv = "start"
    /\ readResult = NoRead
    /\ colResult = NoColumns
    /\ gvResult = NoLookup
    /\ IdleMint /\ IdleLex /\ IdleGen /\ IdleExt /\ IdleApp

NextCsv == ReadCsv \/ LoadCsvColumns \/ GetValueSlug \/ GetValueGupri

SpecCsv == InitCsv /\ [][NextCsv]_vars

InitMint ==
    /\ ID_MAPPINGS = EmptyMap
    /\ mappingFile = NoFile
    /\ pcMint = "idle"
    /\ run = 0
    /\ nCalls = 0
    /\ probe = NoCall
    /\ last = NoCall
    /\ IdleCsv /\ IdleLex /\ IdleGen /\ IdleExt /\ IdleApp

NextMint == MintLoad \/ MintMissingCsv \/ MintCall \/ MintSave

SpecMint == InitMint /\ [][NextMint]_vars

InitLex ==
    /\ LEXICON_ID_MAPPINGS = EmptyMap
    /\ lexFile = NoFile
    /\ pcLex = "idle"
    /\ lexRun = 0
    /\ IdleCsv /\ IdleMint /\ IdleGen /\ IdleExt /\ IdleApp

NextLex == LexStart \/ LexRow \/ LexSave

SpecLex == InitLex /\ [][NextLex]_vars

InitGen ==
    /\ script \in {"slug", "gupri"}
    /\ rows \in RowLists
    /\ pcGen = "start"
    /\ stage_info = EmptyMap
    /\ ttl = <<>>
    /\ IdleCsv /\ IdleMint /\ IdleLex /\ IdleExt /\ IdleApp

NextGen ==
    \/ BuildStageInfo \/ EmitStageBlocks \/ EmitSpecsAndDeliverables
    \/ GupriLoad \/ GupriEmitStages \/ GupriEmitDeliverables \/ GupriSave

SpecGen == InitGen /\ [][NextGen]_vars

InitEsc ==
    /\ escIn \in EscInputs
    /\ escOut = <<>>
    /\ pcEsc = "start"
    /\ IdleCsv /\ IdleMint /\ IdleLex /\ IdleGen /\ IdleCmb /\ IdleUp /\ IdleApp

NextEsc == EscapeSlug \/ EscapeSme \/ EscapeGupri \/ EscapeLexicon

SpecEsc == InitEsc /\ [][NextEsc]_vars

InitCmb ==
    /\ ttlIn = <<>>
    /\ all_prefixes = EmptyMap
    /\ all_triples = <<>>
    /\ ttlOut = <<>>
    /\ pcCmb = "reading"
    /\ IdleCsv /\ IdleMint /\ IdleLex /\ IdleGen /\ IdleEsc /\ IdleUp /\ IdleApp

NextCmb == CombineSkipMissing \/ CombineOpenFile \/ CombineLine \/ CombineWrite

SpecCmb == InitCmb /\ [][NextCmb]_vars

InitUp ==
    /\ max_retries \in 0..MaxRetries
    /\ attempt = 0
    /\ backoff = 1
    /\ sleeps = <<>>
    /\ status = 0
    /\ transient = 0
    /\ failures = 0
    /\ upResult = NoResult
    /\ pcUp = "loop"
    /\ IdleCsv /\ IdleMint /\ IdleLex /\ IdleGen /\ IdleEsc /\ IdleCmb /\ IdleApp

NextUp == UploadOk \/ UploadHttpError \/ UploadException

SpecUp == InitUp /\ [][NextUp]_vars

\* one run of the uploader's main: the dry-run flags of argv, the existence
\* of each path of --files and --max-retries are the inputs
InitMain ==
    /\ dry_run_flags \in FlagLists
    /\ files \in FileLists
    /\ max_retries \in RetryChoices
    /\ dry_run = FALSE
    /\ fileIdx = 0
    /\ posts = <<>>
    /\ exitCode = 0
    /\ pcMain = "args"
    /\ attempt = 0
    /\ backoff = 0
    /\ sleeps = <<>>
    /\ status = 0
    /\ transient = 0
    /\ failures = 0
    /\ upResult = NoResult
    /\ pcUp = "off"
    /\ IdleCsv /\ IdleMint /\ IdleLex /\ IdleGen /\ IdleEsc /\ IdleCmb /\ IdleRun /\ IdleSim

NextMain ==
    \/ MainParseArgs \/ MainSkipMissing \/ MainDryRunFile \/ MainCallUpload
    \/ UploadOk \/ UploadHttpError \/ UploadException
    \/ MainUploadReturned \/ MainDone

SpecMain == InitMain /\ [][NextMain]_vars

\* one run of an entry point: the state of its input path, and the bytes of
\* the CSV files it reads
InitRun ==
    /\ entry \in EntryPoints
    /\ inputKind \in {"ok", "missing"}
          \cup (IF entry = "extract_xlsx" THEN {"not a directory"} ELSE {})
    /\ encoding \in (IF entry = "extract_xlsx" THEN {"ascii", "utf-8", "latin-1"}
                     ELSE {"utf-8"})
    /\ combine \in (IF entry = "extract_xlsx" THEN BOOLEAN ELSE {FALSE})
    /\ csvIn \in (IF inputKind # "ok" THEN {<<>>}
                  ELSE IF entry = "extract_xlsx"
                  THEN UNION {[1..n -> CsvByteFiles] : n \in 0..2}
                  ELSE [1..1 -> CsvByteFiles])
    /\ csvIdx = 0
    /\ tried = <<>>
    /\ decoded = <<>>
    /\ raised = FALSE
    /\ runExit = 0
    /\ pcRun = "start"
    /\ IdleCsv /\ IdleMint /\ IdleLex /\ IdleGen /\ IdleExt /\ IdleMain /\ IdleSim

NextRun ==
    \/ RunMissingInput \/ RunOpenCsv \/ RunFinish
    \/ ExtractScan \/ ExtractReadCsv \/ ExtractFinish

SpecRun == InitRun /\ [][NextRun]_vars

\* a StageGateSimulator after __init__, and any sequence of calls of its
\* methods after initialize_workflow
InitSim ==
    /\ data \in SimShortLists
    /\ deliverable_status = <<>>
    /\ now = 0
    /\ simCall = NoSimCall
    /\ sample = {}
    /\ flowIdx = 0
    /\ readiness = NoReadiness
    /\ pcSim = "new"
    /\ IdleCsv /\ IdleMint /\ IdleLex /\ IdleGen /\ IdleExt /\ IdleMain /\ IdleRun

NextSim == SimInitialize \/ SimAssign \/ SimStart \/ SimComplete

SpecSim == InitSim /\ [][NextSim]_vars

\* simulate_workflow on a StageGateSimulator after __init__
InitFlow ==
    /\ data \in SimDataLists
    /\ deliverable_status = <<>>
    /\ now = 0
    /\ simCall = NoSimCall
    /\ sample = {}
    /\ flowIdx = 0
    /\ readiness = NoReadiness
    /\ pcSim = "flow"
    /\ IdleCsv /\ IdleMint /\ IdleLex /\ IdleGen /\ IdleExt /\ IdleMain /\ IdleRun

NextFlow ==
    \/ FlowInitialize \/ FlowAssign \/ FlowSample \/ FlowStart \/ FlowMidpoint
    \/ FlowComplete \/ FlowFastTrack \/ FlowFinal

SpecFlow == InitFlow /\ [][NextFlow]_vars

\* simulate_workflow is straight-line code over finite loops: a call that
\* can be made is made
SpecFlowLive == SpecFlow /\ WF_vars(NextFlow)

\* upload_file where every POST is answered or fails (urlopen has a timeout)
\* and every sleep ends
SpecUpLive == SpecUp /\ WF_vars(NextUp)

-----------------------------------------------------------------------------
(* Claims about identifier minting *)

SameKey(c, d) ==
    /\ c.entity_type = d.entity_type
    /\ c.key_components = d.key_components

\* C1: two create_gupri calls with the same (entity_type, key_components), in
\* one run or in runs joined by the saved and reloaded mapping file, return
\* the same identifier, whatever the hints and whatever was minted in between.
C1_SameKeySameId ==
    (probe.n > 0 /\ last.n > 0 /\ SameKey(probe, last)) => last.id = probe.id

\* C1 witness: a key minted in one run is asked for again in a later run, with
\* another hint, after another call in between.
C1_Witness ==
    /\ probe.n > 0
    /\ last.n > probe.n + 1
    /\ last.run > probe.run
    /\ SameKey(probe, last)
    /\ last.readable_hint # probe.readable_hint
    /\ last.id = probe.id

\* every member of the file before a step is a member of the file after it
KeptBy(before, after) ==
    before.exists => (after.exists /\ before.members \subseteq after.members)

\* C2: a GUPRI mapping side-file only grows: every key in the file before a
\* run is in the file after it, with the same value.
C2_MappingFileOnlyGrows ==
    [][KeptBy(mappingFile, mappingFile') /\ KeptBy(lexFile, lexFile')]_vars

\* C3: within one run create_gupri never returns the same identifier for two
\* different (entity_type, key_components) tuples.
C3_DistinctKeysDistinctIds ==
    (probe.n > 0 /\ last.n > 0 /\ probe.run = last.run /\ ~SameKey(probe, last))
        => last.id # probe.id

-----------------------------------------------------------------------------
(* Claims about tabular extraction and column resolution *)

\* the first alias, in table order, that the row holds with a non-empty value
FirstNonEmpty(row, field) ==
    LET filled == SelectSeq(Aliases(field),
                            LAMBDA a : <<a>> \in DOMAIN row /\ row[<<a>>] # <<>>)
    IN IF filled = <<>> THEN <<>> ELSE row[<<filled[1]>>]

\* C8: get_value returns the first non-empty value among the field's aliases
\* in order, passing over an alias that is present but empty, and the empty
\* string when no alias has a value or the field is unregistered.
C8_FirstNonEmptyAlias ==
    gvResult.variant # "none" =>
        gvResult.value = FirstNonEmpty(gvResult.row, gvResult.field)

\* C9: a CSV of fewer than 2 lines gives empty headers and empty data, without
\* raising, in every second-row-header reader.
C9_ShortFileIsEmpty ==
    /\ (pcCsv = "read" /\ Len(csvFile) < 2) =>
          (~readResult.raised /\ readResult.headers = <<>> /\ readResult.rows = <<>>)
    /\ (pcCsv = "loaded" /\ Len(csvFile) < 2) =>
          (~colResult.raised /\ colResult.headers = <<>> /\ colResult.data = EmptyMap)

\* C10: every data row becomes a Row whose keys are exactly the header names
\* of line index 1; a short row is padded with empty strings, a long row is
\* cut to the header length, and nothing raises.
C10_RowsFollowHeader ==
    (pcCsv \in {"read", "resolved"} /\ Len(csvFile) >= 2) =>
        LET hdr == csvFile[2]
            name(i) == Strip(hdr[i])
            names == {name(i) : i \in 1..Len(hdr)}
        IN /\ ~readResult.raised
           /\ Len(readResult.rows) = Len(csvFile) - 2
           /\ \A k \in 1..Len(readResult.rows) :
                LET line == csvFile[k + 2]
                    row == readResult.rows[k]
                IN /\ DOMAIN row = names
                   /\ \A i \in 1..Len(hdr) :
                        (\A j \in 1..Len(hdr) : name(j) = name(i) => j <= i) =>
                            row[name(i)] = IF i <= Len(line) THEN Strip(line[i]) ELSE <<>>

\* C10 witness: a data row shorter than a header of two distinct names was read.
C10_Witness ==
    /\ pcCsv = "read"
    /\ Len(csvFile) = 3
    /\ Len(csvFile[2]) = 2
    /\ Len(csvFile[3]) = 1
    /\ Len(readResult.rows) = 1
    /\ Cardinality(DOMAIN readResult.rows[1]) = 2


-----------------------------------------------------------------------------
(* Claims about the generated Turtle *)

ValueStreamOf(i) ==
    IF script = "slug" THEN get_value(rows[i], "Value Stream")
    ELSE get_value_gupri(rows[i], "Value Stream")

StageGateOf(i) ==
    IF script = "slug" THEN get_value(rows[i], "Stage Gate")
    ELSE get_value_gupri(rows[i], "Stage Gate")

DescriptionOf(i) ==
    IF script = "slug" THEN get_value(rows[i], "Stage Gate Description")
    ELSE get_value_gupri(rows[i], "Stage Gate Description")

LiteralOf(text) == IF script = "slug" THEN Quoted(text) ELSE Literal(text)

\* the statements that assert class cls
ClassStmts(cls) == {k \in DOMAIN ttl : ttl[k].p = "a" /\ ttl[k].o = Name(cls)}

\* C4: in the output of one run of generate_cmc_ttl.py every Stage,
\* Specification and Agent subject has exactly one class assertion, however
\* many rows reference the entity.
C4_DeclaredOnce ==
    (script = "slug" /\ pcGen = "done") =>
        \A cls \in {"ex:Stage", "ex:Specification", "prov:Agent"} :
            \A j, k \in ClassStmts(cls) : ttl[j].s = ttl[k].s => j = k

\* the first non-empty description among the rows carrying row i's
\* (value stream, stage number), else 'Stage <n>'
ExpectedDescription(i) ==
    LET filled == {j \in 1..Len(rows) :
                      /\ ValueStreamOf(j) = ValueStreamOf(i)
                      /\ StageGateOf(j) = StageGateOf(i)
                      /\ DescriptionOf(j) # <<>>}
    IN IF filled = {} THEN TxtStage \o StageGateOf(i)
       ELSE DescriptionOf(CHOOSE j \in filled : \A m \in filled : j <= m)

\* the label statements of the subjects that row i's iteration declared as cls
LabelsOf(cls) ==
    {k \in DOMAIN ttl :
        /\ ttl[k].p = "rdfs:label"
        /\ \E d \in ClassStmts(cls) : ttl[d].s = ttl[k].s /\ ttl[d].row = ttl[k].row}

\* C5: the description in a Stage label and in a Specification label is the
\* first non-empty Stage Gate Description among the rows of that
\* (value_stream, stage_number), and 'Stage <n>' only when they are all empty.
C5_FirstNonEmptyDescription ==
    pcGen = "done" =>
        /\ \A k \in LabelsOf("ex:Stage") :
              ttl[k].o = LiteralOf(ExpectedDescription(ttl[k].row))
        /\ \A k \in LabelsOf("ex:Specification") :
              ttl[k].o = LiteralOf(TxtSpecificationFor \o ExpectedDescription(ttl[k].row))

\* the Specification of row i's (value stream, stage number)
SpecificationOf(i) ==
    IF script = "slug"
    THEN spec_iri(safe_id(ValueStreamOf(i)), safe_id(StageGateOf(i)))
    ELSE ID_MAPPINGS[CacheKey("Specification", <<ValueStreamOf(i), StageGateOf(i)>>)]

\* C6: every QualityAttribute emitted is linked from the Specification of its
\* row's (value_stream, stage_number) and from no other Specification.
C6_LinkedToOneSpecification ==
    pcGen = "done" =>
        \A k \in ClassStmts("ex:QualityAttribute") :
            {ttl[j].s : j \in {m \in DOMAIN ttl :
                                  ttl[m].p = "ex:hasCQA" /\ ttl[m].o = ttl[k].s}}
                = {SpecificationOf(ttl[k].row)}

\* the non-blank comma-separated parts of row i's Owner text
NonBlankOwnerParts(i) ==
    LET parts == Split(rows[i][<<"Owner">>], ",")
    IN {Strip(parts[k]) : k \in 1..Len(parts)} \ {<<>>}

\* the rows for which generate_cmc_ttl.py writes a QualityAttribute stanza
StanzaRows == {ttl[k].row : k \in ClassStmts("ex:QualityAttribute")}

-----------------------------------------------------------------------------
(* Claims about literal escaping.  The reader of a literal follows the Turtle
   grammar: STRING_LITERAL_QUOTE, STRING_LITERAL_LONG_QUOTE and ECHAR. *)

Unreadable == [ok |-> FALSE, value |-> <<>>]

\* the character an ECHAR stands for
EcharOf(c) ==
    CASE c = "t" -> "\t" [] c = "n" -> "\n" [] c = "r" -> "\r"
      [] c = "\"" -> "\"" [] c = "\\" -> "\\" [] c = "'" -> "'"

\* the text between the quotes of a "..." literal: no raw quote, LF or CR
RECURSIVE ReadShort(_)
ReadShort(s) ==
    IF s = <<>> THEN [ok |-> TRUE, value |-> <<>>]
    ELSE IF Head(s) = "\\"
    THEN IF Len(s) >= 2 /\ s[2] \in {"t", "n", "r", "\"", "\\", "'"}
         THEN LET rest == ReadShort(SubSeq(s, 3, Len(s)))
              IN [ok |-> rest.ok, value |-> <<EcharOf(s[2])>> \o rest.value]
         ELSE Unreadable
    ELSE IF Head(s) \in {"\"", "\n", "\r"} THEN Unreadable
    ELSE LET rest == ReadShort(Tail(s))
         IN [ok |-> rest.ok, value |-> <<Head(s)>> \o rest.value]

\* what follows the opening delimiter of a long literal: the first three
\* quotes in a row close it, and nothing may follow them
RECURSIVE ReadLongBody(_)
ReadLongBody(s) ==
    IF Len(s) >= 3 /\ SubSeq(s, 1, 3) = <<"\"", "\"", "\"">>
    THEN [ok |-> Len(s) = 3, value |-> <<>>]
    ELSE IF s = <<>> THEN Unreadable
    ELSE IF Head(s) = "\\"
    THEN IF Len(s) >= 2 /\ s[2] \in {"t", "n", "r", "\"", "\\", "'"}
         THEN LET rest == ReadLongBody(SubSeq(s, 3, Len(s)))
              IN [ok |-> rest.ok, value |-> <<EcharOf(s[2])>> \o rest.value]
         ELSE Unreadable
    ELSE LET rest == ReadLongBody(Tail(s))
         IN [ok |-> rest.ok, value |-> <<Head(s)>> \o rest.value]

ReadLong(s) ==
    IF Len(s) >= 3 /\ SubSeq(s, 1, 3) = <<"\"", "\"", "\"">>
    THEN ReadLongBody(SubSeq(s, 4, Len(s)))
    ELSE Unreadable

Readable(text) == [ok |-> TRUE, value |-> text]

\* C11: un-escaping the output of the single-line escape_turtle_literal
\* (generate_cmc_ttl.py, generate_sme_ttl.py) as a Turtle parser does gives
\* back the original string, for strings of ordinary characters, double
\* quotes, backslashes, tabs, LF and CR.
C11_EscapeRoundTrip ==
    pcEsc \in {"slug", "sme"} => ReadShort(escOut) = Readable(escIn)

HasLineBreak(text) == Contains(text, "\n") \/ Contains(text, "\r")

\* C12: for every input holding a CR or LF the triple-quoted literal returned
\* by escape_turtle_literal (generate_cmc_ttl_gupri.py; generate_lexicon_ttl.py
\* after its strip) is valid Turtle: it is closed only by its final delimiter
\* and reads back as the original string.
C12_LongLiteralValid ==
    /\ (pcEsc = "gupri" /\ HasLineBreak(escIn)) => ReadLong(escOut) = Readable(escIn)
    /\ (pcEsc = "lexicon" /\ HasLineBreak(Strip(escIn))) =>
            ReadLong(escOut) = Readable(Strip(escIn))

-----------------------------------------------------------------------------
(* Claims about combine_ttl_files *)

\* the lines of the existing input files, in file order and line order
RECURSIVE LinesOf(_)
LinesOf(fs) ==
    IF fs = <<>> THEN <<>>
    ELSE (IF Head(fs).exists THEN Head(fs).lines ELSE <<>>) \o LinesOf(Tail(fs))

InLines == LinesOf(ttlIn)

IsPrefixLine(line) == StartsWith(Strip(line), "@prefix")

\* the input @prefix lines, by position
InPrefixIdx == {k \in DOMAIN InLines : IsPrefixLine(InLines[k])}

\* the output @prefix lines, by position
OutPrefixIdx == {k \in DOMAIN ttlOut : IsPrefixLine(ttlOut[k])}

\* the prefix name an @prefix line declares, as Turtle reads it: the text
\* after "@prefix" and white space, up to and including the first colon
TurtleName(line) ==
    LET rest == LStrip(Tail(Strip(line)), WhiteSpace)
        colon == CHOOSE k \in 1..Len(rest) :
                    rest[k] = ":" /\ \A j \in 1..(k - 1) : rest[j] # ":"
    IN SubSeq(rest, 1, colon)

\* C13: the output of combine_ttl_files holds exactly one @prefix line for
\* each prefix name declared in any input, however many inputs declare it.
C13_OnePrefixLinePerName ==
    pcCmb = "done" =>
        \A i \in InPrefixIdx :
            Cardinality({k \in OutPrefixIdx :
                            TurtleName(ttlOut[k]) = TurtleName(InLines[i])}) = 1

\* a line with every run of white space written as one space
SingleSpaced(line) == Join(SplitWs(line), <<" ">>)

\* C14 as claimed: an @prefix line is removed only when the same line came
\* earlier, so every input @prefix line is in the output (white space aside)
\* and two lines binding one name to different IRIs are both there.
C14_OnlyIdenticalLinesRemoved ==
    pcCmb = "done" =>
        \A i \in InPrefixIdx :
            \E k \in OutPrefixIdx : ttlOut[k] = SingleSpaced(InLines[i])

\* the second white-space-separated field of an @prefix line
NameField(line) == SplitWs(line)[2]

\* the input @prefix lines that no later @prefix line with the same name
\* field follows
LastOfName ==
    {i \in InPrefixIdx :
        \A j \in InPrefixIdx : NameField(InLines[j]) = NameField(InLines[i]) => j <= i}

\* C14 as amended: for each name field the output holds one @prefix line, the
\* last input @prefix line with that name field written with single spaces;
\* an earlier line of the same name field is removed, identical or not.
C14_LastBindingPerNameKept ==
    pcCmb = "done" =>
        /\ {ttlOut[k] : k \in OutPrefixIdx} = {SingleSpaced(InLines[i]) : i \in LastOfName}
        /\ Cardinality(OutPrefixIdx) = Cardinality(LastOfName)

\* C14 witness: the same name bound to two IRIs, by two files; only the second
\* binding was written.
C14_Witness ==
    /\ pcCmb = "done"
    /\ Len(ttlIn) = 2
    /\ ttlIn[1].exists /\ ttlIn[1].lines = <<LnXP>>
    /\ ttlIn[2].exists /\ ttlIn[2].lines = <<LnXQ>>
    /\ {ttlOut[k] : k \in OutPrefixIdx} = {LnXQ}

\* the position of the first input @prefix line with the name field of line
FirstOfName(line) ==
    CHOOSE i \in InPrefixIdx :
        /\ NameField(InLines[i]) = NameField(line)
        /\ \A j \in InPrefixIdx : NameField(InLines[j]) = NameField(line) => i <= j

\* C15 as claimed: the @prefix lines of the output are in the order of their
\* first occurrence in the input.
C15_FirstOccurrenceOrder ==
    pcCmb = "done" =>
        \A j, k \in OutPrefixIdx :
            j < k => FirstOfName(ttlOut[j]) < FirstOfName(ttlOut[k])

\* C15 as amended: the @prefix lines come first in the output, in ascending
\* order of their name field (Python string order), whatever the input order.
C15_SortedByName ==
    pcCmb = "done" =>
        /\ OutPrefixIdx = 1..Cardinality(OutPrefixIdx)
        /\ \A j, k \in OutPrefixIdx :
              j < k => StrLess(NameField(ttlOut[j]), NameField(ttlOut[k]))

\* C15 witness: x: is declared before b: and b: is written before x:.
C15_Witness ==
    /\ pcCmb = "done"
    /\ \E i, j \in InPrefixIdx :
         /\ i < j
         /\ InLines[i] = LnXP /\ InLines[j] = LnBP
    /\ \E j, k \in OutPrefixIdx :
         /\ j < k
         /\ ttlOut[j] = LnBP /\ NameField(ttlOut[k]) = <<"x", ":">>

\* the input lines that are not @prefix lines, stripped, in order
NonPrefixIn == SelectSeq([k \in DOMAIN InLines |-> Strip(InLines[k])],
                         LAMBDA l : ~StartsWith(l, "@prefix"))

RECURSIVE IsSubSeq(_, _)
IsSubSeq(a, b) ==
    IF a = <<>> THEN TRUE
    ELSE IF b = <<>> THEN FALSE
    ELSE IF Head(a) = Head(b) THEN IsSubSeq(Tail(a), Tail(b))
    ELSE IsSubSeq(a, Tail(b))

\* C16 as claimed: every line of an existing input that is not an @prefix line,
\* comments included, is in the output (surrounding white space aside), in
\* file order and line order.
C16_EveryOtherLineKept ==
    pcCmb = "done" => IsSubSeq(NonPrefixIn, ttlOut)

\* the stripped input lines that are neither @prefix lines, nor blank, nor
\* begin with '#'
KeptIn == SelectSeq(NonPrefixIn, LAMBDA l : l # <<>> /\ ~StartsWith(l, "#"))

\* C16 as amended: after the @prefix lines and one empty line the output is
\* exactly the input lines that are not @prefix lines, not blank and do not
\* begin with '#', each stripped of surrounding white space, in file order and
\* line order; blank lines and lines beginning with '#' are dropped.
C16_NonCommentLinesKept ==
    pcCmb = "done" =>
        LET n == Cardinality(OutPrefixIdx)
        IN /\ Len(ttlOut) >= n + 2
           /\ ttlOut[n + 1] = <<>>
           /\ SubSeq(ttlOut, n + 2, Len(ttlOut)) =
                 (IF KeptIn = <<>> THEN << <<>> >> ELSE KeptIn)

\* C16 witness: an indented triple and a comment in one file, a triple in the
\* next; the output holds the two triples, stripped, in that order.
C16_Witness ==
    /\ pcCmb = "done"
    /\ Len(ttlIn) = 2
    /\ ttlIn[1].exists /\ ttlIn[1].lines = <<LnIndented, LnComment>>
    /\ ttlIn[2].exists /\ ttlIn[2].lines = <<LnTriple>>
    /\ ttlOut = << <<>>, Strip(LnIndented), LnTriple >>

-----------------------------------------------------------------------------
(* Claims about upload_file *)

GaveUp ==
    /\ pcUp = "done"
    /\ upResult.msg \in {"HTTPError after attempts", "Error after attempts"}

\* C17: when every response is 429/5xx, upload_file gives up only after
\* max_retries retries have followed the first attempt.
C17_RetriesUpToMaxRetries ==
    (GaveUp /\ failures = 0) =>
        /\ Len(sleeps) = max_retries
        /\ attempt = max_retries + 1

\* C18: k transient HTTP errors in a row and then a success, with
\* k < max_retries: upload_file does not give up on any of the k errors, has
\* slept k times after them, and returns success on attempt k + 1.
C18_SuccessAfterTransientErrors ==
    failures = 0 =>
        /\ (GaveUp => transient >= max_retries)
        /\ pcUp = "loop" => (attempt = transient /\ Len(sleeps) = transient)
        /\ (pcUp = "done" /\ upResult.ok) =>
              /\ attempt = transient + 1
              /\ Len(sleeps) = transient
              /\ upResult.status \in SuccessCodes

\* C18 witness: 503-like, 503-like, then success on the third attempt with
\* max_retries = 3.
C18_Witness ==
    /\ pcUp = "done" /\ upResult.ok
    /\ failures = 0 /\ transient = 2
    /\ max_retries = 3
    /\ attempt = 3
    /\ sleeps = <<1, 2>>

RECURSIVE PowerOfTwo(_)
PowerOfTwo(n) == IF n = 0 THEN 1 ELSE 2 * PowerOfTwo(n - 1)

\* C19: the i-th sleep of one call lasts min(2^(i-1), 30) seconds, after HTTP
\* errors and connection errors alike; so the delays never decrease and never
\* exceed 30.
C19_BackoffSequence ==
    \A i \in 1..Len(sleeps) :
        /\ sleeps[i] = (IF PowerOfTwo(i - 1) < 30 THEN PowerOfTwo(i - 1) ELSE 30)
        /\ sleeps[i] <= 30
        /\ i > 1 => sleeps[i - 1] <= sleeps[i]

\* C19 witness: seven sleeps, after errors of both kinds; the last two are
\* capped.
C19_Witness ==
    /\ sleeps = <<1, 2, 4, 8, 16, 30, 30>>
    /\ transient > 0 /\ failures > 0

\* C20: an HTTP error whose status is neither 429 nor in 500..599 ends the
\* call at once with a failure: no sleep follows it and no further POST.
C20_PermanentErrorNoRetry ==
    (status \in HttpErrorCodes /\ status # 429 /\ ~(status >= 500 /\ status <= 599)) =>
        /\ pcUp = "done"
        /\ ~upResult.ok
        /\ upResult.status = status
        /\ Len(sleeps) = attempt - 1

\* C20 witness: a 404 on the third attempt, with retries left.
C20_Witness ==
    /\ status = 404
    /\ attempt = 3
    /\ max_retries > 3
    /\ pcUp = "done" /\ ~upResult.ok

\* C23 (as stated): whatever max_retries is and however the endpoint answers,
\* the POST attempts of one call never exceed max_retries, and the call
\* returns a result.
C23_AttemptsWithinMaxRetries ==
    /\ [](attempt <= max_retries)
    /\ <>(pcUp = "done")

\* the attempts one call can make: the first one, and further ones while
\* attempt < max_retries
AttemptBound == IF max_retries > 1 THEN max_retries ELSE 1

\* C23 (amended): the first POST is always sent, so the attempts of one call
\* are bounded by max(1, max_retries); every call returns a result, a success
\* or a failure, and sleeps fewer times than it POSTs.
C23_TerminatesWithinAttemptBound ==
    /\ [](/\ attempt <= AttemptBound
          /\ Len(sleeps) <= attempt
          /\ pcUp = "done" => Len(sleeps) = attempt - 1)
    /\ <>[](pcUp = "done" /\ upResult # NoResult /\ attempt >= 1)

\* C23 witness: a call that used all its attempts, errors of both kinds among
\* them, and gave up.
C23_Witness ==
    /\ GaveUp
    /\ max_retries >= 5
    /\ attempt = max_retries
    /\ transient > 0 /\ failures > 0

-----------------------------------------------------------------------------
(* Claims about the uploader's main *)

\* the last POST of the run was answered with a failure of upload_file
UploadFailed == pcUp = "done" /\ ~upResult.ok

\* C21: main POSTs the existing files in the order given, one file at a time
\* and none skipped; once upload_file has returned a failure no later file is
\* POSTed and main returns 1 (and it returns 1 in no other case).
C21_InOrderStopAtFirstFailure ==
    pcMain # "off" =>
        /\ \A k \in 1..Len(posts) :
              /\ posts[k] \in 1..Len(files)
              /\ files[posts[k]]
              /\ k > 1 => posts[k - 1] <= posts[k]
              /\ \A j \in 1..(posts[k] - 1) :
                    files[j] => \E m \in 1..(k - 1) : posts[m] = j
        /\ UploadFailed =>
              /\ pcMain \in {"uploading", "done"}
              /\ \A k \in 1..Len(posts) : posts[k] <= fileIdx
              /\ posts[Len(posts)] = fileIdx
              /\ pcMain = "done" => exitCode = 1
        /\ (pcMain = "done" /\ exitCode = 1) => UploadFailed
        /\ (pcMain = "done" /\ exitCode = 0 /\ ~dry_run) =>
              \A j \in 1..Len(files) : files[j] => \E m \in 1..Len(posts) : posts[m] = j

\* C21 witness: three existing files; the first is uploaded, the second fails
\* on its second attempt, the third is never POSTed and main returns 1.
C21_Witness ==
    /\ pcMain = "done" /\ exitCode = 1
    /\ files = <<TRUE, TRUE, TRUE>>
    /\ posts = <<1, 2, 2>>

\* C22: without --dry-run and --no-dry-run on the command line dry-run is in
\* effect; and with dry-run in effect main sends no request, for any file
\* list, and returns 0.
C22_DryRunSendsNothing ==
    pcMain \notin {"off", "args"} =>
        /\ dry_run_flags = <<>> => dry_run
        /\ dry_run =>
              /\ posts = <<>>
              /\ attempt = 0 /\ pcUp = "off"
              /\ pcMain \in {"files", "done"}
              /\ pcMain = "done" => exitCode = 0

\* C22 witness: a finished run without either flag over two existing files
\* and a missing one.
C22_Witness ==
    /\ pcMain = "done" /\ exitCode = 0
    /\ dry_run_flags = <<>>
    /\ files = <<TRUE, FALSE, TRUE>>
    /\ posts = <<>>

-----------------------------------------------------------------------------
(* Claims about the entry points and their CSV readers *)

\* C24: an entry point whose required input path (source CSV or input
\* directory) does not exist exits with code 2.
C24_MissingInputExits2 ==
    (pcRun = "done" /\ inputKind # "ok") => runExit = 2

\* the encoding a reader of the running entry point tries first
PrimaryEncoding == IF entry = "extract_xlsx" THEN encoding ELSE "utf-8"

-----------------------------------------------------------------------------
(* Claims about Specifications and header rows in the generated Turtle *)

\* the statements with predicate pred
StmtsWith(pred) == {k \in DOMAIN ttl : ttl[k].p = pred}

\* C26: in the output of either generator the Specifications that Stage
\* stanzas name through ex:hasSpecification are exactly the Specifications
\* declared with 'a ex:Specification', for every row sequence.
C26_ReferencedSpecsAreDeclared ==
    pcGen = "done" =>
        {ttl[k].o : k \in StmtsWith("ex:hasSpecification")}
            = {ttl[k].s : k \in ClassStmts("ex:Specification")}

\* row i repeats the header texts
EchoesHeader(i) ==
    ValueStreamOf(i) = TxtValueStream /\ StageGateOf(i) = TxtStageGate

\* C27: in the GUPRI generator a row that repeats the header (Value Stream =
\* 'Value Stream', Stage Gate = 'Stage Gate') yields no Stage, no
\* Specification and no QualityAttribute stanza.
C27_HeaderRowYieldsNoEntity ==
    (script = "gupri" /\ pcGen = "done") =>
        \A k \in DOMAIN ttl :
            EchoesHeader(ttl[k].row) =>
                ~(/\ ttl[k].p = "a"
                  /\ ttl[k].o \in {Name("ex:Stage"), Name("ex:Specification"),
                                   Name("ex:QualityAttribute")})

-----------------------------------------------------------------------------
(* Claims about StageGateSimulator *)

\* the place of a status on the path pending -> assigned -> in_progress -> completed
StatusRank(st) ==
    CASE st = "pending" -> 0
      [] st = "assigned" -> 1
      [] st = "in_progress" -> 2
      [] st = "completed" -> 3

\* C28: in every sequence of assign_deliverable, start_deliverable and
\* complete_deliverable calls, no call moves the status of a deliverable to
\* an earlier place on the path pending -> assigned -> in_progress ->
\* completed.
C28_StatusOnlyMovesForward ==
    [][pcSim = "ready" =>
         \A k \in 1..Len(deliverable_status) :
             StatusRank(deliverable_status'[k].status)
                 >= StatusRank(deliverable_status[k].status)]_vars

\* the status a deliverable must have for the call op to act on it
RequiredStatus(op) == IF op = "start_deliverable" THEN "assigned" ELSE "in_progress"

\* C29: a start_deliverable call acts exactly when its id is a key whose
\* status is 'assigned', and a complete_deliverable call exactly when its id
\* is a key whose status is 'in_progress'; a call that acts returns True and
\* touches that entry only, and any other call returns False and leaves
\* every entry (status, dates, notes) as it was.
C29_ActsOnlyInRequiredStatus ==
    [][simCall'.op \in {"start_deliverable", "complete_deliverable"} =>
         LET k == KeyIndex(deliverable_status, simCall'.id)
             acts == /\ k # 0
                     /\ deliverable_status[k].status = RequiredStatus(simCall'.op)
         IN /\ simCall'.ret = acts
            /\ ~acts => deliverable_status' = deliverable_status
            /\ acts =>
                 /\ Len(deliverable_status') = Len(deliverable_status)
                 /\ \A j \in 1..Len(deliverable_status) :
                        j # k => deliverable_status'[j] = deliverable_status[j]
                 /\ StatusRank(deliverable_status'[k].status)
                        = StatusRank(deliverable_status[k].status) + 1]_vars

\* C29 witness: start_deliverable was called for a deliverable that is
\* completed with a note, returned False, and the entry still holds its
\* status, both dates and the note.
C29_Witness ==
    /\ simCall.op = "start_deliverable" /\ ~simCall.ret
    /\ LET k == KeyIndex(deliverable_status, simCall.id)
       IN /\ k # 0
          /\ deliverable_status[k].status = "completed"
          /\ deliverable_status[k].started_date = 1
          /\ deliverable_status[k].completed_date = 2
          /\ deliverable_status[k].notes = << <<"n">> >>

\* every entry of the dict is completed
AllCompleted == \A k \in 1..Len(deliverable_status) : deliverable_status[k].status = "completed"

\* C30: simulate_workflow finishes, whatever the deliverable list and the
\* sample drawn, and when it has finished every deliverable is 'completed'
\* and the readiness it returns has completed = total, in_progress = 0,
\* pending = 0, and can_pass_gate true exactly when there is a deliverable.
C30_WorkflowEndsAllCompleted ==
    /\ <>(pcSim = "done")
    /\ [](pcSim = "done" =>
            /\ AllCompleted
            /\ readiness.total_deliverables = Len(deliverable_status)
            /\ readiness.completed = readiness.total_deliverables
            /\ readiness.in_progress = 0
            /\ readiness.pending = 0
            /\ readiness.can_pass_gate = (readiness.total_deliverables > 0))

\* C30 witness: simulate_workflow has finished over three deliverables, two
\* of them completed after review and one fast-tracked, and the gate can be
\* passed.
C30_Witness ==
    /\ pcSim = "done"
    /\ Len(deliverable_status) = 3
    /\ \E k \in 1..3 : deliverable_status[k].notes = << <<"Fast-tracked completion">> >>
    /\ \E k \in 1..3 : deliverable_status[k].notes = <<review_notes(deliverable_status[k])>>
    /\ sample = {}
    /\ readiness.completed = 3
    /\ readiness.can_pass_gate

====
